---- MODULE Spec2Model ----
(***************************************************************************)
(* CHIP-8 interpreter of francescomari/chip-8 (package emulator).          *)
(*                                                                         *)
(* The emulator object is the record e; its fields are the fields of the   *)
(* Go structs Emulator and State.  Every public method is one action.      *)
(* Integers keep their Go width: uint8 values are reduced modulo 256 and   *)
(* uint16 values modulo 65536 wherever the Go code can overflow.  A Go     *)
(* run-time panic (array index out of range) is recorded in e.panic with   *)
(* the state as it was when the panic was raised.                          *)
(***************************************************************************)
EXTENDS Integers, Sequences, FiniteSets, TLC

VARIABLES
    e,      \* the Emulator: State fields, waitKey, waitKeyRegister, sound
    last,   \* history: the last operation applied, its arguments and results
    timer,  \* history: the value of the last LD ST, Vx, the Clock calls made
            \* since (counted up to that value), the sound callbacks since,
            \* whether a callback has been installed all along; the same
            \* value and count for the last LD DT, Vx; the addresses of the
            \* CALLs not returned from yet; what the last LD [I], Vx found
            \* (I, x, V) and wrote; the keys whose latest event is a
            \* KeyDown; the display as the last DRW found it; and whether
            \* Load and Step have been called yet
    out,    \* the State variable of a caller that State is given a pointer
            \* to: the storage its fields are read from and its value
    host    \* the windowed host: where Update and the emulator goroutine
            \* stand, Game.debug, the channels the goroutine's stepCh and
            \* clockCh variables hold, the keys Update's loop has still to
            \* send, whether the function key Update asks about next was
            \* just pressed, printState, the goroutine's d and s,
            \* Game.display,
            \* and (history) the entry point the last step called

vars == <<e, last, timer, out, host>>

---------------------------------------------------------------------------
(* Fixed-width arithmetic and bit operations. *)

U8(n) == n % 256

U16(n) == n % 65536

RECURSIVE BitAnd(_, _)
BitAnd(a, b) ==
    IF a = 0 \/ b = 0 THEN 0
    ELSE (a % 2) * (b % 2) + 2 * BitAnd(a \div 2, b \div 2)

RECURSIVE BitOr(_, _)
BitOr(a, b) ==
    IF a = 0 THEN b
    ELSE IF b = 0 THEN a
    ELSE (IF a % 2 = 1 \/ b % 2 = 1 THEN 1 ELSE 0) + 2 * BitOr(a \div 2, b \div 2)

RECURSIVE BitXor(_, _)
BitXor(a, b) ==
    IF a = 0 THEN b
    ELSE IF b = 0 THEN a
    ELSE ((a + b) % 2) + 2 * BitXor(a \div 2, b \div 2)

RECURSIVE Pow2(_)
Pow2(k) == IF k = 0 THEN 1 ELSE 2 * Pow2(k - 1)

ShiftRight(a, k) == a \div Pow2(k)

---------------------------------------------------------------------------
(* Constants of package emulator. *)

fonts ==
    << \hf0, \h90, \h90, \h90, \hf0,
       \h20, \h60, \h20, \h20, \h70,
       \hf0, \h10, \hf0, \h80, \hf0,
       \hf0, \h10, \hf0, \h10, \hf0,
       \h90, \h90, \hf0, \h10, \h10,
       \hf0, \h80, \hf0, \h10, \hf0,
       \hf0, \h80, \hf0, \h90, \hf0,
       \hf0, \h10, \h20, \h40, \h40,
       \hf0, \h90, \hf0, \h90, \hf0,
       \hf0, \h90, \hf0, \h10, \hf0,
       \hf0, \h90, \hf0, \h90, \h90,
       \he0, \h90, \he0, \h90, \he0,
       \hf0, \h80, \h80, \h80, \hf0,
       \he0, \h90, \h90, \h90, \he0,
       \hf0, \h80, \hf0, \h80, \hf0,
       \hf0, \h80, \hf0, \h80, \h80 >>

ProgramStart == \h200

FontSize == 5

DisplayWidth == 64

DisplayHeight == 32

SpriteWidth == 8

MemorySize == 4096

StackSize == 16

MaskFamily == \hf000
MaskX == \h0f00
MaskY == \h00f0
MaskN == \h000f
MaskKK == \h00ff
MaskNNN == \h0fff

ShiftX == 8
ShiftY == 4

OpTypeSys == \h0000
OpTypeJP == \h1000
OpTypeCALL == \h2000
OpTypeSE == \h3000
OpTypeSNE == \h4000
OpTypeSEV == \h5000
OpTypeLD == \h6000
OpTypeADD == \h7000
OpTypeALU == \h8000
OpTypeSNEV == \h9000
OpTypeLDI == \ha000
OpTypeJPV == \hb000
OpTypeRND == \hc000
OpTypeDRW == \hd000
OpTypeKey == \he000
OpTypeMisc == \hf000

OpHALT == \h0000
OpCLS == \h00e0
OpRET == \h00ee

OpLDVV == \h0000
OpORVV == \h0001
OpANDVV == \h0002
OpXORVV == \h0003
OpADDVV == \h0004
OpSUBVV == \h0005
OpSHR == \h0006
OpSUBN == \h0007
OpSHL == \h000e

OpSKP == \h009e
OpSKNP == \h00a1

OpLDVDT == \h0007
OpLDVK == \h000a
OpLDDTV == \h0015
OpLDSTV == \h0018
OpADDIV == \h001e
OpLDF == \h0029
OpLDB == \h0033
OpSTMV == \h0055
OpLDVM == \h0065

---------------------------------------------------------------------------
(* Opcode fields, as every handler extracts them. *)

FieldX(op) == ShiftRight(BitAnd(op, MaskX), ShiftX)

FieldY(op) == ShiftRight(BitAnd(op, MaskY), ShiftY)

FieldN(op) == BitAnd(op, MaskN)

FieldKK(op) == BitAnd(op, MaskKK)

FieldNNN(op) == BitAnd(op, MaskNNN)

---------------------------------------------------------------------------
(* State.Instruction: the big-endian word at PC.  Reading Memory[PC] or    *)
(* Memory[PC+1] outside the array panics; PC+1 is a uint16 sum.            *)

InstructionPanics(s) == s.PC >= MemorySize \/ U16(s.PC + 1) >= MemorySize

Instruction(s) == s.Memory[s.PC] * 256 + s.Memory[U16(s.PC + 1)]

---------------------------------------------------------------------------
(* New: zero value of Emulator, fonts copied to address 0, PC at 0x200.    *)

\* Mutant of New: the fonts are copied to address 0x50.
New_FontsAt50 ==
    [ V |-> [r \in 0..15 |-> 0],
      I |-> 0,
      SP |-> 0,
      DT |-> 0,
      ST |-> 0,
      PC |-> ProgramStart,
      Stack |-> [k \in 0..(StackSize - 1) |-> 0],
      Memory |-> [a \in 0..(MemorySize - 1) |->
                    IF a >= \h50 /\ a < \h50 + Len(fonts)
                    THEN fonts[a - \h50 + 1] ELSE 0],
      Display |-> [py \in 0..(DisplayHeight - 1) |->
                    [px \in 0..(DisplayWidth - 1) |-> 0]],
      Keys |-> [k \in 0..15 |-> FALSE],
      waitKey |-> FALSE,
      waitKeyRegister |-> 0,
      sound |-> FALSE,
      panic |-> FALSE ]

New ==
    [ V |-> [r \in 0..15 |-> 0],
      I |-> 0,
      SP |-> 0,
      DT |-> 0,
      ST |-> 0,
      PC |-> ProgramStart,
      Stack |-> [k \in 0..(StackSize - 1) |-> 0],
      Memory |-> [a \in 0..(MemorySize - 1) |->
                    IF a < Len(fonts) THEN fonts[a + 1] ELSE 0],
      Display |-> [py \in 0..(DisplayHeight - 1) |->
                    [px \in 0..(DisplayWidth - 1) |-> 0]],
      Keys |-> [k \in 0..15 |-> FALSE],
      waitKey |-> FALSE,
      waitKeyRegister |-> 0,
      sound |-> FALSE,
      panic |-> FALSE ]

\* The fields of the State struct inside the Emulator.
StateFields(s) ==
    [ V |-> s.V, I |-> s.I, SP |-> s.SP, DT |-> s.DT, ST |-> s.ST,
      PC |-> s.PC, Stack |-> s.Stack, Memory |-> s.Memory,
      Display |-> s.Display, Keys |-> s.Keys ]

\* A State variable as the caller declares it (var state emulator.State):
\* its own storage, every field zero.
ZeroState ==
    [ own |-> TRUE,
      value |-> [ V |-> [r \in 0..15 |-> 0], I |-> 0, SP |-> 0, DT |-> 0,
                  ST |-> 0, PC |-> 0,
                  Stack |-> [k \in 0..(StackSize - 1) |-> 0],
                  Memory |-> [a \in 0..(MemorySize - 1) |-> 0],
                  Display |-> [py \in 0..(DisplayHeight - 1) |->
                                [px \in 0..(DisplayWidth - 1) |-> 0]],
                  Keys |-> [k \in 0..15 |-> FALSE] ] ]

\* Mutant of State: the caller is left with a view of the emulator's own
\* struct.
State_View(s) == [ own |-> FALSE, value |-> StateFields(s) ]

\* *state = e.state: a struct assignment, which copies every field, the
\* arrays included, into the caller's storage.
State(s) == [ own |-> TRUE, value |-> StateFields(s) ]

\* What the caller reads through its State variable when the emulator is s.
Snapshot(o, s) == IF o.own THEN o.value ELSE StateFields(s)

---------------------------------------------------------------------------
(* The disassembler of the debug package.                                  *)

\* fmt.Sprintf with the verbs %x, %02x, %03x, %04x: lowercase hexadecimal,
\* padded with zeros to at least width digits.
RECURSIVE Sprintx(_, _)
Sprintx(v, width) ==
    LET digits == << "0", "1", "2", "3", "4", "5", "6", "7",
                     "8", "9", "a", "b", "c", "d", "e", "f" >>
    IN  IF v < 16 /\ width <= 1 THEN digits[v + 1]
        ELSE Sprintx(v \div 16, width - 1) \o digits[(v % 16) + 1]

String(op) ==
    LET x == "v" \o Sprintx(FieldX(op), 1)
        y == "v" \o Sprintx(FieldY(op), 1)
        n == Sprintx(FieldNNN(op), 3)
        k == Sprintx(FieldKK(op), 2)
        b == Sprintx(FieldN(op), 1)
        family == BitAnd(op, MaskFamily)
        unknown == "unknown (" \o Sprintx(op, 4) \o ")"
    IN  CASE family = OpTypeSys ->
               (CASE FieldKK(op) = OpCLS -> "cls"
                  [] FieldKK(op) = OpRET -> "ret"
                  [] OTHER -> unknown)
          [] family = OpTypeJP -> "jp " \o n
          [] family = OpTypeCALL -> "call " \o n
          [] family = OpTypeSE -> "se " \o x \o ", " \o k
          [] family = OpTypeSNE -> "sne " \o x \o ", " \o k
          [] family = OpTypeSEV -> "se " \o x \o ", " \o y
          [] family = OpTypeLD -> "ld " \o x \o ", " \o k
          [] family = OpTypeADD -> "add " \o x \o ", " \o k
          [] family = OpTypeALU ->
               (CASE FieldN(op) = OpLDVV -> "ld " \o x \o ", " \o y
                  [] FieldN(op) = OpORVV -> "or " \o x \o ", " \o y
                  [] FieldN(op) = OpANDVV -> "and " \o x \o ", " \o y
                  [] FieldN(op) = OpXORVV -> "xor " \o x \o ", " \o y
                  [] FieldN(op) = OpADDVV -> "add " \o x \o ", " \o y
                  [] FieldN(op) = OpSUBVV -> "sub " \o x \o ", " \o y
                  [] FieldN(op) = OpSHR -> "shr " \o x \o ", " \o y
                  [] FieldN(op) = OpSUBN -> "subn " \o x \o ", " \o y
                  [] FieldN(op) = OpSHL -> "shl " \o x \o ", " \o y
                  [] OTHER -> unknown)
          [] family = OpTypeSNEV -> "sne " \o x \o ", " \o y
          [] family = OpTypeLDI -> "ld i, " \o n
          [] family = OpTypeJPV -> "jp v0, " \o n
          [] family = OpTypeRND -> "rnd " \o x \o ", " \o k
          [] family = OpTypeDRW -> "draw " \o x \o ", " \o y \o ", " \o b
          [] family = OpTypeKey ->
               (CASE FieldKK(op) = OpSKP -> "skp " \o x
                  [] FieldKK(op) = OpSKNP -> "sknp " \o x
                  [] OTHER -> unknown)
          [] family = OpTypeMisc ->
               (CASE FieldKK(op) = OpLDVDT -> "ld " \o x \o ", dt"
                  [] FieldKK(op) = OpLDVK -> "ld " \o x \o ", k"
                  [] FieldKK(op) = OpLDDTV -> "ld dt, " \o x
                  [] FieldKK(op) = OpLDSTV -> "ld st, " \o x
                  [] FieldKK(op) = OpADDIV -> "add i, " \o x
                  [] FieldKK(op) = OpLDF -> "ld f, " \o x
                  [] FieldKK(op) = OpLDB -> "ld b, " \o x
                  [] FieldKK(op) = OpSTMV -> "ld [i], " \o x
                  [] FieldKK(op) = OpLDVM -> "ld " \o x \o ", [i]"
                  [] OTHER -> unknown)

---------------------------------------------------------------------------
(* Clock, KeyDown, KeyUp, SetSound, Load as functions of the emulator.     *)

\* Mutant of ClockSounds: the callback is invoked on every tick of a running
\* sound timer (the test "ST == 0" after the decrement is lost).
ClockSounds_EveryTick(s) == IF s.ST > 0 /\ s.sound THEN 1 ELSE 0

\* Number of times Clock invokes the sound callback.
ClockSounds(s) == IF s.ST > 0 /\ s.ST - 1 = 0 /\ s.sound THEN 1 ELSE 0

\* Mutant of Clock: only the sound timer is counted down.
Clock_SoundOnly(s) ==
    [s EXCEPT !.ST = IF s.ST > 0 THEN s.ST - 1 ELSE s.ST]

\* Mutant of Clock: the timers are decremented without the "> 0" tests.
Clock_Wraps(s) ==
    [s EXCEPT !.DT = U8(s.DT + 255), !.ST = U8(s.ST + 255)]

\* Mutant of Clock: the timers stand still while a key wait is pending.
Clock_OnlyWhileRunning(s) ==
    IF s.waitKey THEN s
    ELSE [s EXCEPT !.DT = IF s.DT > 0 THEN s.DT - 1 ELSE s.DT,
                   !.ST = IF s.ST > 0 THEN s.ST - 1 ELSE s.ST]

Clock(s) ==
    [s EXCEPT !.DT = IF s.DT > 0 THEN s.DT - 1 ELSE s.DT,
              !.ST = IF s.ST > 0 THEN s.ST - 1 ELSE s.ST]

\* Mutant of KeyDown: the press, not the release, resolves a pending wait.
KeyDown_ResolvesWait(s, key) ==
    LET pressed == [s EXCEPT !.Keys[BitAnd(key, \hf)] = TRUE]
    IN  IF pressed.waitKey
        THEN [pressed EXCEPT !.V[pressed.waitKeyRegister] = key,
                             !.waitKey = FALSE,
                             !.PC = U16(pressed.PC + 2)]
        ELSE pressed

KeyDown(s, key) == [s EXCEPT !.Keys[BitAnd(key, \hf)] = TRUE]

\* Mutant of KeyUp: the wait is resolved but PC is left on the Fx0A.
KeyUp_NoAdvance(s, key) ==
    LET released == [s EXCEPT !.Keys[BitAnd(key, \hf)] = FALSE]
    IN  IF released.waitKey
        THEN [released EXCEPT !.V[released.waitKeyRegister] = key,
                              !.waitKey = FALSE]
        ELSE released

\* Mutant of KeyUp: the "if e.waitKey" test is lost.
KeyUp_AlwaysResolves(s, key) ==
    LET released == [s EXCEPT !.Keys[BitAnd(key, \hf)] = FALSE]
    IN  [released EXCEPT !.V[released.waitKeyRegister] = key,
                         !.waitKey = FALSE,
                         !.PC = U16(released.PC + 2)]

KeyUp(s, key) ==
    LET released == [s EXCEPT !.Keys[BitAnd(key, \hf)] = FALSE]
    IN  IF released.waitKey
        THEN [released EXCEPT !.V[released.waitKeyRegister] = key,
                              !.waitKey = FALSE,
                              !.PC = U16(released.PC + 2)]
        ELSE released

SetSound(s, callback) == [s EXCEPT !.sound = callback]

\* Mutant of Load: the program is copied to the start of the memory.
Load_AtZero(s, program) ==
    LET n == Len(program)
    IN  [s EXCEPT !.Memory =
            [a \in 0..(MemorySize - 1) |->
                IF a < n THEN program[a + 1] ELSE s.Memory[a]]]

\* copy(e.state.Memory[ProgramStart:], program): copies as many bytes as fit.
Load(s, program) ==
    LET n == Len(program)
    IN  [s EXCEPT !.Memory =
            [a \in 0..(MemorySize - 1) |->
                IF a >= ProgramStart /\ a - ProgramStart < n
                THEN program[a - ProgramStart + 1]
                ELSE s.Memory[a]]]

---------------------------------------------------------------------------
(* Instruction handlers.  Each takes the emulator and the opcode and       *)
(* returns the emulator after the handler; assignments are applied in the  *)
(* order the Go code makes them.                                           *)

\* Memory[addr] = val with Go's bounds check.
StoreByte(s, addr, val) ==
    IF s.panic THEN s
    ELSE IF addr >= MemorySize THEN [s EXCEPT !.panic = TRUE]
    ELSE [s EXCEPT !.Memory[addr] = val]

\* Mutant of AdvancePC: PC advances by bytes where it should by words.
AdvancePC_Half(s, k) ==
    IF s.panic THEN s ELSE [s EXCEPT !.PC = U16(s.PC + k \div 2)]

\* PC += k, unless the handler panicked before reaching that statement.
AdvancePC(s, k) == IF s.panic THEN s ELSE [s EXCEPT !.PC = U16(s.PC + k)]

\* V[0xf] = 1 if flag, else 0.
SetFlag(s, flag) == [s EXCEPT !.V[15] = IF flag THEN 1 ELSE 0]

clearDisplay(s) ==
    AdvancePC([s EXCEPT !.Display = [py \in 0..(DisplayHeight - 1) |->
                                       [px \in 0..(DisplayWidth - 1) |-> 0]]], 2)

\* Mutant of functionReturn: PC is left on the CALL returned to.
functionReturn_NoAdvance(s) ==
    LET sp == U8(s.SP + 255)
        s1 == [s EXCEPT !.SP = sp]
    IN  IF sp >= StackSize THEN [s1 EXCEPT !.panic = TRUE]
        ELSE [s1 EXCEPT !.PC = s1.Stack[sp]]

functionReturn(s) ==
    LET sp == U8(s.SP + 255)
        s1 == [s EXCEPT !.SP = sp]
    IN  IF sp >= StackSize THEN [s1 EXCEPT !.panic = TRUE]
        ELSE AdvancePC([s1 EXCEPT !.PC = s1.Stack[sp]], 2)

jump(s, op) == [s EXCEPT !.PC = BitAnd(op, MaskNNN)]

functionCall(s, op) ==
    IF s.SP >= StackSize THEN [s EXCEPT !.panic = TRUE]
    ELSE [s EXCEPT !.Stack[s.SP] = s.PC,
                   !.SP = U8(s.SP + 1),
                   !.PC = BitAnd(op, \hfff)]

skipIfConstantEqual(s, op) ==
    LET x == FieldX(op)
        n == U8(FieldKK(op))
    IN  IF s.V[x] = n THEN AdvancePC(s, 4) ELSE AdvancePC(s, 2)

skipIfConstantNotEqual(s, op) ==
    LET x == FieldX(op)
        n == U8(FieldKK(op))
    IN  IF s.V[x] # n THEN AdvancePC(s, 4) ELSE AdvancePC(s, 2)

skipIfRegisterEqual(s, op) ==
    LET x == FieldX(op)
        y == FieldY(op)
    IN  IF s.V[x] = s.V[y] THEN AdvancePC(s, 4) ELSE AdvancePC(s, 2)

loadRegisterFromConstant(s, op) ==
    LET x == FieldX(op)
        v == U8(FieldKK(op))
    IN  AdvancePC([s EXCEPT !.V[x] = v], 2)

incrementRegister(s, op) ==
    LET x == FieldX(op)
        v == U8(FieldKK(op))
    IN  AdvancePC([s EXCEPT !.V[x] = U8(s.V[x] + v)], 2)

loadRegisterFromRegister(s, op) ==
    LET x == FieldX(op)
        y == FieldY(op)
    IN  AdvancePC([s EXCEPT !.V[x] = s.V[y]], 2)

\* Mutant of bitwiseOr: VF is not cleared.
bitwiseOr_KeepsFlag(s, op) ==
    LET x == FieldX(op)
        y == FieldY(op)
    IN  AdvancePC([s EXCEPT !.V[x] = BitOr(s.V[x], s.V[y])], 2)

bitwiseOr(s, op) ==
    LET x == FieldX(op)
        y == FieldY(op)
        s1 == [s EXCEPT !.V[x] = BitOr(s.V[x], s.V[y])]
    IN  AdvancePC([s1 EXCEPT !.V[15] = 0], 2)

bitwiseAnd(s, op) ==
    LET x == FieldX(op)
        y == FieldY(op)
        s1 == [s EXCEPT !.V[x] = BitAnd(s.V[x], s.V[y])]
    IN  AdvancePC([s1 EXCEPT !.V[15] = 0], 2)

bitwiseXor(s, op) ==
    LET x == FieldX(op)
        y == FieldY(op)
        s1 == [s EXCEPT !.V[x] = BitXor(s.V[x], s.V[y])]
    IN  AdvancePC([s1 EXCEPT !.V[15] = 0], 2)

\* Mutant of addWithCarry: VF is written before the sum is computed.
addWithCarry_FlagFirst(s, op) ==
    LET x == FieldX(op)
        y == FieldY(op)
        carry == s.V[x] > 255 - s.V[y]
        s1 == SetFlag(s, carry)
    IN  AdvancePC([s1 EXCEPT !.V[x] = U8(s1.V[x] + s1.V[y])], 2)

addWithCarry(s, op) ==
    LET x == FieldX(op)
        y == FieldY(op)
        carry == s.V[x] > 255 - s.V[y]
        s1 == [s EXCEPT !.V[x] = U8(s.V[x] + s.V[y])]
    IN  AdvancePC(SetFlag(s1, carry), 2)

subtractRightWithBorrow(s, op) ==
    LET x == FieldX(op)
        y == FieldY(op)
        noBorrow == s.V[x] >= s.V[y]
        s1 == [s EXCEPT !.V[x] = U8(256 + s.V[x] - s.V[y])]
    IN  AdvancePC(SetFlag(s1, noBorrow), 2)

subtractLeftWithBorrow(s, op) ==
    LET x == FieldX(op)
        y == FieldY(op)
        noBorrow == s.V[y] >= s.V[x]
        s1 == [s EXCEPT !.V[x] = U8(256 + s.V[y] - s.V[x])]
    IN  AdvancePC(SetFlag(s1, noBorrow), 2)

\* Mutant of shiftRight: Vx is shifted in place, Vy is not read.
shiftRight_InPlace(s, op) ==
    LET x == FieldX(op)
        carry == BitAnd(s.V[x], \h01) # 0
        s2 == [s EXCEPT !.V[x] = ShiftRight(s.V[x], 1)]
    IN  AdvancePC(SetFlag(s2, carry), 2)

shiftRight(s, op) ==
    LET x == FieldX(op)
        y == FieldY(op)
        s1 == [s EXCEPT !.V[x] = s.V[y]]
        carry == BitAnd(s1.V[x], \h01) # 0
        s2 == [s1 EXCEPT !.V[x] = ShiftRight(s1.V[x], 1)]
    IN  AdvancePC(SetFlag(s2, carry), 2)

shiftLeft(s, op) ==
    LET x == FieldX(op)
        y == FieldY(op)
        s1 == [s EXCEPT !.V[x] = s.V[y]]
        carry == BitAnd(s1.V[x], \h80) # 0
        s2 == [s1 EXCEPT !.V[x] = U8(s1.V[x] * 2)]
    IN  AdvancePC(SetFlag(s2, carry), 2)

skipIfRegisterNotEqual(s, op) ==
    LET x == FieldX(op)
        y == FieldY(op)
    IN  IF s.V[x] # s.V[y] THEN AdvancePC(s, 4) ELSE AdvancePC(s, 2)

\* Mutant of loadIndex: the flag register is cleared as well.
loadIndex_ClearsFlag(s, op) ==
    LET n == FieldNNN(op)
    IN  AdvancePC([s EXCEPT !.I = n, !.V[15] = 0], 2)

loadIndex(s, op) ==
    LET n == FieldNNN(op)
    IN  AdvancePC([s EXCEPT !.I = n], 2)

jumpRelative(s, op) ==
    LET n == FieldNNN(op)
    IN  [s EXCEPT !.PC = U16(s.V[0] + n)]

\* r is the uint32 the random number generator returned.
generateRandomNumber(s, op, r) ==
    LET x == FieldX(op)
        n == FieldKK(op)
    IN  AdvancePC([s EXCEPT !.V[x] = BitAnd(U8(r), U8(n))], 2)

\* Mutant of drawColumns: a set bit turns its cell on instead of flipping it.
RECURSIVE drawColumns_Sets(_, _, _, _, _)
drawColumns_Sets(s, sprite, py, bx, dx) ==
    IF dx >= SpriteWidth THEN s
    ELSE LET px == bx + dx
         IN  IF px >= DisplayWidth THEN s
             ELSE LET bit == BitAnd(sprite, ShiftRight(\h80, dx))
                      s1 == IF s.Display[py][px] # 0
                            THEN [s EXCEPT !.V[15] = 1]
                            ELSE s
                      s2 == [s1 EXCEPT !.Display[py][px] = 1]
                  IN  drawColumns_Sets(IF bit # 0 THEN s2 ELSE s,
                                       sprite, py, bx, dx + 1)

RECURSIVE drawColumns(_, _, _, _, _)
drawColumns(s, sprite, py, bx, dx) ==
    IF dx >= SpriteWidth THEN s
    ELSE LET px == bx + dx
         IN  IF px >= DisplayWidth THEN s
             ELSE LET bit == BitAnd(sprite, ShiftRight(\h80, dx))
                      s1 == IF s.Display[py][px] # 0
                            THEN [s EXCEPT !.V[15] = 1]
                            ELSE s
                      s2 == [s1 EXCEPT !.Display[py][px] =
                                BitXor(s1.Display[py][px], 1)]
                  IN  drawColumns(IF bit # 0 THEN s2 ELSE s,
                                  sprite, py, bx, dx + 1)

RECURSIVE drawRows(_, _, _, _, _)
drawRows(s, n, bx, by, dy) ==
    IF dy >= n THEN s
    ELSE LET addr == U16(s.I + dy)
         IN  IF addr >= MemorySize THEN [s EXCEPT !.panic = TRUE]
             ELSE LET sprite == s.Memory[addr]
                      py == by + dy
                  IN  IF py >= DisplayHeight THEN s
                      ELSE drawRows(drawColumns(s, sprite, py, bx, 0),
                                    n, bx, by, dy + 1)

draw(s, op) ==
    LET x == FieldX(op)
        y == FieldY(op)
        n == FieldN(op)
        s1 == [s EXCEPT !.V[15] = 0]
        bx == s1.V[x] % DisplayWidth
        by == s1.V[y] % DisplayHeight
    IN  AdvancePC(drawRows(s1, n, bx, by, 0), 2)

\* Mutant of skipIfKeyPressed: the key array is indexed by the whole
\* register.
skipIfKeyPressed_Unmasked(s, op) ==
    LET x == FieldX(op)
        k == s.V[x]
    IN  IF k > 15 THEN [s EXCEPT !.panic = TRUE]
        ELSE IF s.Keys[k] THEN AdvancePC(s, 4) ELSE AdvancePC(s, 2)

skipIfKeyPressed(s, op) ==
    LET x == FieldX(op)
        k == BitAnd(s.V[x], \hf)
    IN  IF s.Keys[k] THEN AdvancePC(s, 4) ELSE AdvancePC(s, 2)

skipIfKeyNotPressed(s, op) ==
    LET x == FieldX(op)
        k == BitAnd(s.V[x], \hf)
    IN  IF s.Keys[k] THEN AdvancePC(s, 2) ELSE AdvancePC(s, 4)

loadRegisterFromDelayTimer(s, op) ==
    LET x == FieldX(op)
    IN  AdvancePC([s EXCEPT !.V[x] = s.DT], 2)

\* Mutant of waitForKeyPress: PC is advanced like in every other handler.
waitForKeyPress_AdvancesPC(s, op) ==
    LET x == FieldX(op)
    IN  AdvancePC([s EXCEPT !.waitKey = TRUE, !.waitKeyRegister = U8(x)], 2)

waitForKeyPress(s, op) ==
    LET x == FieldX(op)
    IN  [s EXCEPT !.waitKey = TRUE, !.waitKeyRegister = U8(x)]

loadDelayTimer(s, op) ==
    LET x == FieldX(op)
    IN  AdvancePC([s EXCEPT !.DT = s.V[x]], 2)

loadSoundTimer(s, op) ==
    LET x == FieldX(op)
    IN  AdvancePC([s EXCEPT !.ST = s.V[x]], 2)

incrementIndex(s, op) ==
    LET x == FieldX(op)
    IN  AdvancePC([s EXCEPT !.I = U16(s.I + s.V[x])], 2)

\* FontSize * V[x] is a uint8 product, widened to uint16 afterwards.
loadIndexFromSprite(s, op) ==
    LET x == FieldX(op)
    IN  AdvancePC([s EXCEPT !.I = U8(FontSize * s.V[x])], 2)

\* Mutant of loadMemoryFromBCD: the tens are not reduced below 10.
loadMemoryFromBCD_Tens(s, op) ==
    LET x == FieldX(op)
        s1 == StoreByte(s, s.I, s.V[x] \div 100)
        s2 == StoreByte(s1, U16(s.I + 1), s.V[x] \div 10)
        s3 == StoreByte(s2, U16(s.I + 2), s.V[x] % 10)
    IN  AdvancePC(s3, 2)

loadMemoryFromBCD(s, op) ==
    LET x == FieldX(op)
        s1 == StoreByte(s, s.I, s.V[x] \div 100)
        s2 == StoreByte(s1, U16(s.I + 1), (s.V[x] % 100) \div 10)
        s3 == StoreByte(s2, U16(s.I + 2), s.V[x] % 10)
    IN  AdvancePC(s3, 2)

\* Mutant of storeRegisters: Vn goes to Memory[I + n] and I is left alone.
RECURSIVE storeRegisters_KeepsIndex(_, _, _)
storeRegisters_KeepsIndex(s, n, x) ==
    IF n > x \/ s.panic THEN s
    ELSE storeRegisters_KeepsIndex(StoreByte(s, U16(s.I + n), s.V[n]), n + 1, x)

RECURSIVE storeRegisters(_, _, _)
storeRegisters(s, n, x) ==
    IF n > x \/ s.panic THEN s
    ELSE LET s1 == StoreByte(s, s.I, s.V[n])
         IN  IF s1.panic THEN s1
             ELSE storeRegisters([s1 EXCEPT !.I = U16(s1.I + 1)], n + 1, x)

loadMemoryFromRegisters(s, op) ==
    LET x == FieldX(op)
    IN  AdvancePC(storeRegisters(s, 0, x), 2)

\* Mutant of loadRegisters: every register is read from Memory[I].
RECURSIVE loadRegisters_FirstByte(_, _, _)
loadRegisters_FirstByte(s, n, x) ==
    IF n > x THEN [s EXCEPT !.I = U16(s.I + x + 1)]
    ELSE IF s.I >= MemorySize THEN [s EXCEPT !.panic = TRUE]
    ELSE loadRegisters_FirstByte([s EXCEPT !.V[n] = s.Memory[s.I]], n + 1, x)

RECURSIVE loadRegisters(_, _, _)
loadRegisters(s, n, x) ==
    IF n > x THEN s
    ELSE IF s.I >= MemorySize THEN [s EXCEPT !.panic = TRUE]
    ELSE loadRegisters([s EXCEPT !.V[n] = s.Memory[s.I],
                                 !.I = U16(s.I + 1)], n + 1, x)

loadRegistersFromMemory(s, op) ==
    LET x == FieldX(op)
    IN  AdvancePC(loadRegisters(s, 0, x), 2)

---------------------------------------------------------------------------
(* Step: fetch, decode, execute.  The result is the emulator after the     *)
(* call together with the pair (bool, error) Step returns; a panic leaves  *)
(* Step without a return value.                                            *)

Continue(s) ==
    [e |-> s, ok |-> ~s.panic, err |-> IF s.panic THEN "panic" ELSE "nil"]

\* Mutant of Halt: PC is advanced past the halting opcode.
Halt_AdvancesPC(s) == [e |-> AdvancePC(s, 2), ok |-> FALSE, err |-> "nil"]

Halt(s) == [e |-> s, ok |-> FALSE, err |-> "nil"]

\* Mutant of InvalidOpcode: PC is advanced past the rejected opcode.
InvalidOpcode_AdvancesPC(s) ==
    [e |-> AdvancePC(s, 2), ok |-> FALSE, err |-> "invalid opcode"]

InvalidOpcode(s) == [e |-> s, ok |-> FALSE, err |-> "invalid opcode"]

StepSys(s, op) ==
    LET kk == BitAnd(op, MaskKK)
    IN  CASE kk = OpCLS -> Continue(clearDisplay(s))
          [] kk = OpRET -> Continue(functionReturn(s))
          [] kk = OpHALT -> Halt(s)
          [] OTHER -> InvalidOpcode(s)

StepALU(s, op) ==
    LET n == BitAnd(op, MaskN)
    IN  CASE n = OpLDVV -> Continue(loadRegisterFromRegister(s, op))
          [] n = OpORVV -> Continue(bitwiseOr(s, op))
          [] n = OpANDVV -> Continue(bitwiseAnd(s, op))
          [] n = OpXORVV -> Continue(bitwiseXor(s, op))
          [] n = OpADDVV -> Continue(addWithCarry(s, op))
          [] n = OpSUBVV -> Continue(subtractRightWithBorrow(s, op))
          [] n = OpSHR -> Continue(shiftRight(s, op))
          [] n = OpSUBN -> Continue(subtractLeftWithBorrow(s, op))
          [] n = OpSHL -> Continue(shiftLeft(s, op))
          [] OTHER -> InvalidOpcode(s)

\* Mutant of StepKey: every low byte other than 9E is taken for SKNP.
StepKey_Default(s, op) ==
    LET kk == BitAnd(op, MaskKK)
    IN  CASE kk = OpSKP -> Continue(skipIfKeyPressed(s, op))
          [] OTHER -> Continue(skipIfKeyNotPressed(s, op))

StepKey(s, op) ==
    LET kk == BitAnd(op, MaskKK)
    IN  CASE kk = OpSKP -> Continue(skipIfKeyPressed(s, op))
          [] kk = OpSKNP -> Continue(skipIfKeyNotPressed(s, op))
          [] OTHER -> InvalidOpcode(s)

StepMisc(s, op) ==
    LET kk == BitAnd(op, MaskKK)
    IN  CASE kk = OpLDVDT -> Continue(loadRegisterFromDelayTimer(s, op))
          [] kk = OpLDVK -> Continue(waitForKeyPress(s, op))
          [] kk = OpLDDTV -> Continue(loadDelayTimer(s, op))
          [] kk = OpLDSTV -> Continue(loadSoundTimer(s, op))
          [] kk = OpADDIV -> Continue(incrementIndex(s, op))
          [] kk = OpLDF -> Continue(loadIndexFromSprite(s, op))
          [] kk = OpLDB -> Continue(loadMemoryFromBCD(s, op))
          [] kk = OpSTMV -> Continue(loadMemoryFromRegisters(s, op))
          [] kk = OpLDVM -> Continue(loadRegistersFromMemory(s, op))
          [] OTHER -> InvalidOpcode(s)

\* r is the value the random number generator returns if it is consulted.
Step(s, r) ==
    IF InstructionPanics(s) THEN Continue([s EXCEPT !.panic = TRUE])
    ELSE
    LET op == Instruction(s)
        family == BitAnd(op, MaskFamily)
    IN  CASE family = OpTypeSys -> StepSys(s, op)
          [] family = OpTypeJP -> Continue(jump(s, op))
          [] family = OpTypeCALL -> Continue(functionCall(s, op))
          [] family = OpTypeSE -> Continue(skipIfConstantEqual(s, op))
          [] family = OpTypeSNE -> Continue(skipIfConstantNotEqual(s, op))
          [] family = OpTypeSEV -> Continue(skipIfRegisterEqual(s, op))
          [] family = OpTypeLD -> Continue(loadRegisterFromConstant(s, op))
          [] family = OpTypeADD -> Continue(incrementRegister(s, op))
          [] family = OpTypeALU -> StepALU(s, op)
          [] family = OpTypeSNEV -> Continue(skipIfRegisterNotEqual(s, op))
          [] family = OpTypeLDI -> Continue(loadIndex(s, op))
          [] family = OpTypeJPV -> Continue(jumpRelative(s, op))
          [] family = OpTypeRND -> Continue(generateRandomNumber(s, op, r))
          [] family = OpTypeDRW -> Continue(draw(s, op))
          [] family = OpTypeKey -> StepKey(s, op)
          [] family = OpTypeMisc -> StepMisc(s, op)

---------------------------------------------------------------------------
(* Inputs. *)

\* LD V0, K; LD V2, K; ADD V2, 1; HALT
ProgWaitKey == << \hf0, \h0a, \hf2, \h0a, \h72, \h01, \h00, \h00 >>

\* TestSoundTimer with a shorter count, followed by HALT.
ProgSoundTimer ==
    << \h60, \h02, \hf0, \h18, \hf0, \h15, \hf1, \h07,
       \h31, \h00, \h12, \h06, \h00, \h00 >>

\* LD V0, 1; then the invalid ALU opcode of TestStepInvalidOpcode.
ProgInvalidALU == << \h60, \h01, \h80, \h09 >>

\* Ex00: family E with a low byte that is neither 9E nor A1.
ProgInvalidKey == << \he0, \h00 >>

\* F0FF: family F with an unknown low byte.
ProgInvalidMisc == << \hf0, \hff >>

\* 0123: a legacy "jump to machine routine" opcode.
ProgLegacySys == << \h01, \h23 >>

\* LD V0, 5; 0100: family 0 with low byte 00 and a non-zero x.
ProgSysLowZero == << \h60, \h05, \h01, \h00 >>

\* TestDelayTimer with a count of n: LD V0, n; LD DT, V0; LD V1, DT;
\* SE V1, 0; JP 0x204.  The memory behind the program is zero (HALT).
ProgDelayTimer(n) ==
    << \h60, n, \hf0, \h15, \hf1, \h07, \h31, \h00, \h12, \h04 >>

DelayCounts == { 0, 1, 2, 4 }

DelayPrograms == { ProgDelayTimer(n) : n \in DelayCounts }

\* A program that writes V0, DT, ST, I, the display, the stack and SP:
\* LD V0, 2; LD DT, V0; LD ST, V0; LD I, 0x200; DRW V0, V0, 1; CALL 0x20c;
\* HALT.
ProgSetup ==
    << \h60, \h02, \hf0, \h15, \hf0, \h18, \ha2, \h00, \hd0, \h01,
       \h22, \h0c, \h00, \h00 >>

\* TestLoad: the largest program that fits, 4096 - 512 bytes of 0xFF.
ProgFull == [i \in 1..(MemorySize - ProgramStart) |-> \hff]

\* One byte more than fits.
ProgOversized == [i \in 1..(MemorySize - ProgramStart + 1) |-> \hee]

LoadPrograms == { ProgSetup, ProgFull, ProgOversized }

\* LD V0, a; LD V1, b; LD VF, f; then the opcode 8xyN made of x, y and N.
\* The memory behind the program is zero (HALT).
ProgAlu(a, b, f, x, y, N) ==
    << \h60, a, \h61, b, \h6f, f, \h80 + x, 16 * y + N >>

\* Every ALU operation that writes VF, on register pairs with and without
\* VF as x or y and with x = y, on operands that do and do not carry,
\* borrow and shift a bit out.
AluPrograms ==
    { ProgAlu(a, b, f, xy[1], xy[2], N) :
        a \in { \h00, \h05, \h81 }, b \in { \h02, \hff },
        f \in { \h01, \h02, \h81 },
        xy \in { <<1, 0>>, <<0, 0>>, <<0, 15>>, <<15, 1>>, <<15, 15>> },
        N \in { OpORVV, OpANDVV, OpXORVV, OpADDVV, OpSUBVV, OpSHR, OpSUBN,
                OpSHL } }

\* LD Vx, vx; LD Vy, vy; LD I, 0x20e; DRW Vx, Vy, n1; ADD Vx, 1;
\* DRW Vx, Vy, n2; HALT; then three sprite rows at 0x20e.  The second DRW
\* lies one column to the right of the first and partly over it.
ProgDraw(x, y, vx, vy, n1, n2) ==
    << \h60 + x, vx, \h60 + y, vy, \ha2, \h0e, \hd0 + x, 16 * y + n1,
       \h70 + x, \h01, \hd0 + x, 16 * y + n2, \h00, \h00,
       \hff, \h81, \h80 >>

\* Sprites inside the screen, across its right and bottom edges, in its
\* last cell, and at coordinates beyond 63 and 31; with VF as neither
\* operand, as x and as y; of 0 to 3 rows.  Then TestDrawCollision with
\* the same DRW twice in a row over what an earlier DRW left on the
\* screen: LD V0, vx; LD V1, vy; LD I, 0x210; DRW V0, V1, 3; ADD V0, 1;
\* DRW V0, V1, n; DRW V0, V1, n; HALT; the sprite.
DrawPrograms ==
    { ProgDraw(xy[1], xy[2], v[1], v[2], n1, n2) :
        xy \in { <<0, 1>>, <<15, 1>>, <<0, 15>> },
        v \in { <<1, 2>>, <<60, 30>>, <<127, 63>>, <<65, 34>> },
        n1 \in { 0, 2, 3 }, n2 \in { 1, 3 } } \cup
    { << \h60, v[1], \h61, v[2], \ha2, \h10, \hd0, \h13, \h70, \h01,
         \hd0, \h10 + n, \hd0, \h10 + n, \h00, \h00, \hff, \h81, \h80 >> :
        v \in { <<1, 2>>, <<60, 30>>, <<127, 63>>, <<65, 34>> },
        n \in { 0, 2, 3 } }

\* CALL 0x204; HALT; then k subroutines of four bytes each, the i-th at
\* 0x204 + 4 * (i - 1): CALL the next one; RET.  The last one is
\* LD V0, k; RET.  TestCallAndReturn, nested k deep.
ProgNest(k) ==
    [i \in 1..(4 + 4 * k) |->
        IF i <= 4 THEN << \h22, \h04, \h00, \h00 >>[i]
        ELSE LET m == (i - 5) \div 4 + 1
                 pos == (i - 5) % 4
             IN  CASE pos = 0 -> IF m < k THEN \h22 ELSE \h60
                   [] pos = 1 -> IF m < k THEN \h04 + 4 * m ELSE k
                   [] pos = 2 -> \h00
                   [] pos = 3 -> \hee]

\* Nesting depths from one call to as many as the stack holds; then
\* CALL 0x200 at 0x200, which calls itself until the stack is full and once
\* more; and a RET with no CALL before it.  Then the jumps that take PC to
\* the end of the memory: JP 0xfff; LD V0, 0xff; JP V0, 0xfff; and a
\* program as long as ProgFull with JP 0xffe at its start and LD V0, 1 in
\* its last two bytes, the last two of the memory.
CallPrograms ==
    { ProgNest(k) : k \in 1..StackSize } \cup
    { << \h22, \h00 >>, << \h00, \hee >> } \cup
    { << \h1f, \hff >>, << \h60, \hff, \hbf, \hff >>,
      [i \in 1..(MemorySize - ProgramStart) |->
          CASE i = 1 -> \h1f [] i = 2 -> \hfe
            [] i = MemorySize - ProgramStart - 1 -> \h60
            [] i = MemorySize - ProgramStart -> \h01
            [] OTHER -> 0] }

\* Programs for the instructions that address memory through I.
\* TestLoadMemory for register x and address a: LD V0, 0x11; LD V1, 0x22;
\* LD V2, 0x33; LD VF, 0x44; LD I, a; LD [I], Vx; XOR V0, V0; LD V1, 0x99;
\* LD I, a; LD Vx, [I]; HALT.  With a = 0xff0 and x = F the last byte
\* accessed is the last byte of the memory; with a = 0xfff and x = 1 the
\* second byte lies behind it.
\* Then accesses behind the end of the memory by LD Vx, [I], by LD B, Vx,
\* and by LD [I], V0 after ADD I, V0 has taken I to 0x10fe.
\* Then TestStoreBCD (LD V0, v; LD I, 0x300; LD B, V0) and the start of
\* TestCharacterAddress (LD V0, v; LD F, V0) for every byte v.
MemPrograms ==
    { << \h60, \h11, \h61, \h22, \h62, \h33, \h6f, \h44,
         \ha0 + a \div 256, a % 256, \hf0 + x, \h55,
         \h80, \h03, \h61, \h99,
         \ha0 + a \div 256, a % 256, \hf0 + x, \h65, \h00, \h00 >> :
        x \in { 0, 1, 2, 15 }, a \in { \h300, \hff0, \hfff } } \cup
    { << \haf, \hff, \hf1, \h65 >>,
      << \h60, \hfe, \haf, \hfe, \hf0, \h33 >>,
      << \h60, \hff, \haf, \hff, \hf0, \h1e, \hf0, \h55 >> } \cup
    { << \h60, v, \ha3, \h00, \hf0, \h33 >> : v \in 0..255 } \cup
    { << \h60, v, \hf0, \h29 >> : v \in 0..255 }

\* Programs for the skip instructions: LD V0, a; LD V1, b; the skip;
\* LD V2, 1; LD V3, 1.  SE and SNE against 0x0f, SKP and SKNP as in
\* TestSkipOnKeyDown and TestSkipOnKeyNotDown, with V0 a key, another key
\* and a value with bits above the low four set; SE and SNE between V0 and
\* V1.
SkipPrograms ==
    { << \h60, a, \h61, \h00, o[1], o[2], \h62, \h01, \h63, \h01 >> :
        a \in { \h0e, \h0f, \h1f },
        o \in { << \h30, \h0f >>, << \h40, \h0f >>,
                << \he0, \h9e >>, << \he0, \ha1 >> } } \cup
    { << \h60, a, \h61, b, o[1], o[2], \h62, \h01, \h63, \h01 >> :
        a \in { \h0f, \h1f }, b \in { \h0f, \h1f },
        o \in { << \h50, \h10 >>, << \h90, \h10 >> } }

\* Opcodes given to the disassembler and to Step, one for every way
\* through the decoding: the families switched on the low byte (0, E, F)
\* with every low byte, family 0 with x = 0 and x = 1; the families 8, 5, 9
\* and D with every low nibble; the other families with some operands; and
\* the opcodes of TestInstructionString that name other registers.
Opcodes ==
    { x * 256 + kk : x \in 0..1, kk \in 0..255 } \cup
    { f * 4096 + \h100 + kk : f \in {14, 15}, kk \in 0..255 } \cup
    { f * 4096 + \h120 + n : f \in {5, 8, 9, 13}, n \in 0..15 } \cup
    { f * 4096 + \h100 + kk : f \in {1, 2, 3, 4, 6, 7, 10, 11, 12},
                              kk \in {\h00, \h0a, \he0, \hee, \hff} } \cup
    { \h3a12, \h4b34, \h9340, \h6a42, \h7b10, \h8009 }

Programs ==
    { ProgWaitKey, ProgSoundTimer, ProgInvalidALU, ProgInvalidKey,
      ProgInvalidMisc, ProgLegacySys, ProgSysLowZero }

\* uint8 key arguments of KeyDown and KeyUp: two keypad keys and a value
\* with bits above the low four set.
KeyArgs == { \h01, \h0f, \h1f }

\* uint32 values returned by the random number generator.
RngValues == { \h88, \h1ff }

---------------------------------------------------------------------------
(* History variables. *)

\* pre: what the operation found (waitKey, PC, DT, ST before it ran);
\* program: the argument of Load.
Last(op, key, opcode, ok, err, sounds, s) ==
    [ op |-> op, key |-> key, opcode |-> opcode, ok |-> ok, err |-> err,
      sounds |-> sounds, program |-> << >>, text |-> "",
      pre |-> [waitKey |-> s.waitKey, PC |-> s.PC, DT |-> s.DT, ST |-> s.ST] ]

\* The opcode Step fetched, or -1 if the fetch panicked.
Fetched(s) == IF InstructionPanics(s) THEN -1 ELSE Instruction(s)

IsLoadSoundTimer(op) ==
    op >= 0 /\ BitAnd(op, MaskFamily) = OpTypeMisc /\ BitAnd(op, MaskKK) = OpLDSTV

IsLoadDelayTimer(op) ==
    op >= 0 /\ BitAnd(op, MaskFamily) = OpTypeMisc /\ BitAnd(op, MaskKK) = OpLDDTV

IsLoadMemoryFromRegisters(op) ==
    op >= 0 /\ BitAnd(op, MaskFamily) = OpTypeMisc /\ BitAnd(op, MaskKK) = OpSTMV

IsFunctionCall(op) == op >= 0 /\ BitAnd(op, MaskFamily) = OpTypeCALL

IsFunctionReturn(op) ==
    op >= 0 /\ BitAnd(op, MaskFamily) = OpTypeSys /\ BitAnd(op, MaskKK) = OpRET

---------------------------------------------------------------------------
(* Actions: one per public method.  A panic aborts the program, so nothing *)
(* is enabled after it.                                                    *)

Init ==
    /\ e = New
    /\ last = Last("New", 0, -1, TRUE, "nil", 0, New)
    /\ timer = [written |-> 0, ticks |-> 0, beeps |-> 0, armed |-> FALSE,
                dwritten |-> 0, dticks |-> 0, calls |-> << >>,
                saved |-> [x |-> -1, a |-> 0, V |-> New.V, bytes |-> << >>],
                held |-> {}, shown |-> New.Display, life |-> "new"]
    /\ out = ZeroState
    /\ host = [pc |-> "main", gpc |-> "none", debug |-> FALSE, manual |-> FALSE,
               keys |-> {}, pressed |-> FALSE, print |-> FALSE,
               d |-> << >>, s |-> << >>,
               display |-> << >>, call |-> "none"]

\* Load has no result: it cannot report an error.
DoLoadAnyTime(program) ==
    /\ ~e.panic
    /\ UNCHANGED <<out, host>>
    /\ e' = Load(e, program)
    /\ last' = [Last("Load", 0, -1, TRUE, "nil", 0, e) EXCEPT
                    !.program = program]
    /\ timer' = [timer EXCEPT !.life = "loaded"]

\* Load as the host calls it: once, before the first Step.
DoLoad(program) ==
    /\ timer.life = "new"
    /\ DoLoadAnyTime(program)

DoStep ==
    /\ ~e.panic
    /\ UNCHANGED <<out, host>>
    /\ \E r \in RngValues :
         LET res == Step(e, r)
             op == Fetched(e)
         IN  /\ e' = res.e
             /\ last' = Last("Step", 0, op, res.ok, res.err, 0, e)
             /\ timer' = IF ~res.ok
                         THEN [timer EXCEPT !.life = "running"]
                         ELSE IF IsLoadSoundTimer(op)
                         THEN [timer EXCEPT !.written = res.e.ST, !.ticks = 0,
                                            !.beeps = 0, !.armed = e.sound,
                                            !.life = "running"]
                         ELSE IF IsLoadDelayTimer(op)
                         THEN [timer EXCEPT !.dwritten = res.e.DT, !.dticks = 0,
                                            !.life = "running"]
                         ELSE IF IsFunctionCall(op)
                         THEN [timer EXCEPT !.calls = Append(@, e.PC),
                                            !.life = "running"]
                         ELSE IF IsFunctionReturn(op)
                         THEN [timer EXCEPT !.calls = SubSeq(@, 1, Len(@) - 1),
                                            !.life = "running"]
                         ELSE IF IsLoadMemoryFromRegisters(op)
                         THEN [timer EXCEPT
                                 !.saved = [x |-> FieldX(op), a |-> e.I,
                                            V |-> e.V,
                                            bytes |-> [n \in 0..FieldX(op) |->
                                                res.e.Memory[e.I + n]]],
                                 !.life = "running"]
                         ELSE IF op >= 0 /\ BitAnd(op, MaskFamily) = OpTypeDRW
                         THEN [timer EXCEPT !.shown = e.Display,
                                            !.life = "running"]
                         ELSE [timer EXCEPT !.life = "running"]

DoClock ==
    /\ ~e.panic
    /\ UNCHANGED <<out, host>>
    /\ e' = Clock(e)
    /\ last' = Last("Clock", 0, -1, TRUE, "nil", ClockSounds(e), e)
    /\ timer' = [timer EXCEPT !.ticks = IF @ < timer.written THEN @ + 1 ELSE @,
                               !.beeps = @ + ClockSounds(e),
                               !.dticks = IF @ < timer.dwritten THEN @ + 1 ELSE @]

DoKeyDown(key) ==
    /\ ~e.panic
    /\ UNCHANGED <<out, host>>
    /\ e' = KeyDown(e, key)
    /\ last' = Last("KeyDown", key, -1, TRUE, "nil", 0, e)
    /\ timer' = [timer EXCEPT !.held = @ \cup { key % 16 }]

DoKeyUp(key) ==
    /\ ~e.panic
    /\ UNCHANGED <<out, host>>
    /\ e' = KeyUp(e, key)
    /\ last' = Last("KeyUp", key, -1, TRUE, "nil", 0, e)
    /\ timer' = [timer EXCEPT !.held = @ \ { key % 16 }]

DoSetSound(callback) ==
    /\ ~e.panic
    /\ UNCHANGED <<out, host>>
    /\ e' = SetSound(e, callback)
    /\ last' = Last("SetSound", 0, -1, TRUE, "nil", 0, e)
    /\ timer' = [timer EXCEPT !.armed = @ /\ callback]

\* The caller passes a pointer to its State variable.
DoState ==
    /\ ~e.panic
    /\ out' = State(e)
    /\ last' = Last("State", 0, -1, TRUE, "nil", 0, e)
    /\ UNCHANGED <<e, timer, host>>

\* PrintInstruction writes the String of the instruction at the program
\* counter of the State it is given.
DoPrintInstruction ==
    /\ last' = [Last("PrintInstruction", 0, Instruction(out.value), TRUE,
                     "nil", 0, e) EXCEPT
                    !.text = String(Instruction(out.value))]
    /\ UNCHANGED <<e, timer, out, host>>

\* The caller assigns to fields of its State variable, as the tests of the
\* debug package do: V[0] = 0x12, V[1] = 0x34, V[15] = 0xff.  The
\* assignments go to the storage the variable's fields are in.
DoWriteState ==
    /\ ~e.panic
    /\ out' = [out EXCEPT !.value.V[0] = \h12, !.value.V[1] = \h34,
                          !.value.V[15] = \hff]
    /\ e' = IF out.own THEN e
            ELSE [e EXCEPT !.V[0] = \h12, !.V[1] = \h34, !.V[15] = \hff]
    /\ last' = Last("WriteState", 0, -1, TRUE, "nil", 0, e)
    /\ UNCHANGED <<timer, host>>

Next ==
    \/ \E program \in Programs : DoLoad(program)
    \/ DoStep
    \/ DoClock
    \/ \E key \in KeyArgs : DoKeyDown(key)
    \/ \E key \in KeyArgs : DoKeyUp(key)
    \/ \E callback \in BOOLEAN : DoSetSound(callback)

Spec == Init /\ [][Next]_vars

\* The loop of the tests' run helper: Load once, then Step over and over with
\* Clock called whenever the 60 Hz ticker has fired.
NextDelay ==
    \/ \E program \in DelayPrograms : DoLoad(program)
    \/ DoStep
    \/ DoClock

\* Load is a method like the others: nothing in the package keeps a
\* caller from loading again while a program runs.
NextLoad ==
    \/ \E program \in LoadPrograms : DoLoadAnyTime(program)
    \/ DoStep
    \/ DoKeyDown(\h01)

SpecLoad == Init /\ [][NextLoad]_vars

\* One ALU program loaded and run to its HALT.
SpecAlu ==
    Init /\ [][(\E program \in AluPrograms : DoLoad(program)) \/ DoStep]_vars

\* One drawing program loaded and run to its HALT.
SpecDraw ==
    Init /\ [][(\E program \in DrawPrograms : DoLoad(program)) \/ DoStep]_vars

\* One program of nested calls loaded and run to its HALT.
SpecCall ==
    Init /\ [][(\E program \in CallPrograms : DoLoad(program)) \/ DoStep]_vars

\* One program addressing memory through I loaded and run until it stops.
SpecMem ==
    Init /\ [][(\E program \in MemPrograms : DoLoad(program)) \/ DoStep]_vars

\* Keys pressed and released at any time, before and after one skip program
\* is loaded and while it runs.
SpecSkip ==
    Init /\ [][ \/ \E program \in SkipPrograms : DoLoad(program)
                \/ DoStep
                \/ \E key \in KeyArgs : DoKeyDown(key) \/ DoKeyUp(key) ]_vars

\* A caller that takes snapshots and writes to them while the emulator is
\* loaded, stepped, clocked and given key events.  The program is
\* LD V0, K; LD DT, V0.
SpecState ==
    Init /\ [][ \/ DoLoadAnyTime(<< \hf0, \h0a, \hf0, \h15 >>)
                \/ DoStep
                \/ DoClock
                \/ DoKeyDown(\h01)
                \/ DoKeyUp(\h01)
                \/ DoState
                \/ DoWriteState ]_vars

\* The debugger's view of an emulator loaded with one opcode of Opcodes:
\* the instruction at PC of its State is printed, as in
\* TestPrintInstruction, and the emulator is stepped.
SpecPrint ==
    /\ \E op \in Opcodes :
          LET program == << op \div 256, op % 256 >>
          IN  /\ e = Load(New, program)
              /\ out = State(e)
              /\ last = [Last("Load", 0, -1, TRUE, "nil", 0, New) EXCEPT
                            !.program = program]
    /\ timer = [written |-> 0, ticks |-> 0, beeps |-> 0, armed |-> FALSE,
                dwritten |-> 0, dticks |-> 0, calls |-> << >>,
                saved |-> [x |-> -1, a |-> 0, V |-> New.V, bytes |-> << >>],
                held |-> {}, shown |-> New.Display, life |-> "loaded"]
    /\ host = [pc |-> "main", gpc |-> "none", debug |-> FALSE, manual |-> FALSE,
               keys |-> {}, pressed |-> FALSE, print |-> FALSE,
               d |-> << >>, s |-> << >>,
               display |-> << >>, call |-> "none"]
    /\ [][DoPrintInstruction \/ DoStep]_vars

\* One program that uses VF as flag and as operand, run with Clock and key
\* events: LD VF, 2; OR V0, V0; LD VF, 2; LD DT, VF; ADD VF, 1; LD V0, 0xff;
\* ADD V0, V0; LD VF, K; LD I, 0; LD VF, [I]; DRW V0, V0, 1; HALT.
SpecFlag ==
    Init /\ [][ \/ DoLoad(<< \h6f, \h02, \h80, \h01, \h6f, \h02, \hff, \h15,
                             \h7f, \h01, \h60, \hff, \h80, \h04, \hff, \h0a,
                             \ha0, \h00, \hff, \h65, \hd0, \h01, \h00, \h00 >>)
                \/ DoStep
                \/ DoClock
                \/ DoKeyDown(\h02)
                \/ DoKeyUp(\h02) ]_vars

\* The public operations in any order: a program may be loaded again, the
\* same or another, while the one before it runs or waits for a key.
---------------------------------------------------------------------------
(***************************************************************************)
(* The windowed host (cmd/chip8).  run() creates the emulator, loads the   *)
(* ROM, installs the sound callback and hands the Game to ebiten, which    *)
(* calls Update once per frame.  The first Update starts the emulator      *)
(* goroutine; Update then talks to it over unbuffered channels: a send     *)
(* completes only together with the receive of a select case that listens  *)
(* on the same channel, so a send and the case that takes it are one step. *)
(* The case's body runs before the goroutine selects again and touches     *)
(* only the emulator, which Update never touches, so it is part of that    *)
(* step.                                                                   *)
(***************************************************************************)

\* The CHIP-8 keys the frames of the model bring: the key "1" of mappings.
HostKeys == { \h01 }

\* Mutant of Select: the goroutine keeps listening to the tickers whatever
\* stepCh and clockCh were set to.
Select_Tickers(h) ==
    IF h.gpc # "select" THEN {}
    ELSE { "keyDownCh", "keyUpCh", "displayCh", "startDebugCh",
           "stopDebugCh", "stateCh", "tickerStepCh", "tickerClockCh" }

\* The channels the goroutine's select statement listens on: none unless
\* the goroutine stands at the select; stepCh and clockCh are the manual
\* channels of the Game or the tickers.
Select(h) ==
    IF h.gpc # "select" THEN {}
    ELSE { "keyDownCh", "keyUpCh", "displayCh", "startDebugCh",
           "stopDebugCh", "stateCh" } \cup
         (IF h.manual THEN { "stepCh", "clockCh" }
                      ELSE { "tickerStepCh", "tickerClockCh" })

\* run(): the -debug flag, New, Load of the ROM, SetSound, the Game.
Main ==
    /\ host.pc = "main"
    /\ \E debug \in BOOLEAN :
          host' = [host EXCEPT !.pc = "idle", !.debug = debug]
    /\ e' = SetSound(Load(e, ProgWaitKey), TRUE)
    /\ last' = [Last("Load", 0, -1, TRUE, "nil", 0, e) EXCEPT
                    !.program = ProgWaitKey]
    /\ timer' = [timer EXCEPT !.life = "loaded"]
    /\ UNCHANGED out

\* ebiten calls Update: the first call starts the goroutine (once.Do); the
\* mapped keys among the just pressed keys are what the first loop sends.
Frame ==
    /\ host.pc = "idle"
    /\ \E pressed \in SUBSET HostKeys :
          host' = [host EXCEPT !.pc = "keyDown", !.keys = pressed,
                               !.print = FALSE, !.call = "none",
                               !.gpc = IF @ = "none" THEN "init" ELSE @]
    /\ UNCHANGED <<e, last, timer, out>>

\* One step of Update after its entry: a statement of its own, or a send
\* together with the select case that receives it, or the receive of a
\* reply the goroutine is sending.  host.pressed is what IsKeyJustPressed
\* returns for the function key Update asks about next (F12, F10, F11).
Update ==
    /\ ~e.panic
    /\ UNCHANGED <<last, timer>>
    /\ \/ /\ host.pc = "keyDown" /\ "keyDownCh" \in Select(host)
          /\ \E k \in host.keys :
                /\ host' = [host EXCEPT !.keys = @ \ {k}, !.call = "KeyDown"]
                /\ e' = KeyDown(e, k)
          /\ UNCHANGED out
       \/ /\ host.pc = "keyDown" /\ host.keys = {}
          /\ \E released \in SUBSET HostKeys :
                host' = [host EXCEPT !.pc = "keyUp", !.keys = released,
                                     !.call = "none"]
          /\ UNCHANGED <<e, out>>
       \/ /\ host.pc = "keyUp" /\ "keyUpCh" \in Select(host)
          /\ \E k \in host.keys :
                /\ host' = [host EXCEPT !.keys = @ \ {k}, !.call = "KeyUp"]
                /\ e' = KeyUp(e, k)
          /\ UNCHANGED out
       \/ /\ host.pc = "keyUp" /\ host.keys = {}
          /\ host' = [host EXCEPT !.pc = "display", !.call = "none"]
          /\ UNCHANGED <<e, out>>
       \/ /\ host.pc = "display" /\ "displayCh" \in Select(host)
          /\ host' = [host EXCEPT !.pc = "displayReply", !.gpc = "display",
                                  !.d = e.Display, !.call = "Display"]
          /\ UNCHANGED <<e, out>>
       \/ /\ host.pc = "displayReply" /\ host.gpc = "display"
          /\ \E f12 \in BOOLEAN :
                host' = [host EXCEPT !.pc = "debug", !.gpc = "select",
                                     !.display = host.d, !.d = << >>,
                                     !.pressed = f12, !.call = "none"]
          /\ UNCHANGED <<e, out>>
       \/ /\ host.pc = "debug" /\ host.pressed
          /\ (IF host.debug THEN "stopDebugCh" ELSE "startDebugCh")
                \in Select(host)
          /\ \E f10 \in BOOLEAN :
                host' = [host EXCEPT !.pc = "step", !.manual = ~host.debug,
                                     !.debug = ~@, !.pressed = f10,
                                     !.call = "none"]
          /\ UNCHANGED <<e, out>>
       \/ /\ host.pc = "debug" /\ ~host.pressed
          /\ \E f10 \in BOOLEAN :
                host' = [host EXCEPT !.pc = "step", !.pressed = f10,
                                     !.call = "none"]
          /\ UNCHANGED <<e, out>>
       \/ /\ host.pc = "step" /\ host.pressed /\ host.debug
          /\ "stepCh" \in Select(host)
          /\ \E f11 \in BOOLEAN :
                host' = [host EXCEPT !.pc = "clock", !.print = TRUE,
                                     !.pressed = f11, !.call = "Step"]
          /\ \E r \in RngValues : e' = Step(e, r).e
          /\ UNCHANGED out
       \/ /\ host.pc = "step" /\ ~(host.pressed /\ host.debug)
          /\ \E f11 \in BOOLEAN :
                host' = [host EXCEPT !.pc = "clock", !.pressed = f11,
                                     !.call = "none"]
          /\ UNCHANGED <<e, out>>
       \/ /\ host.pc = "clock" /\ host.pressed /\ host.debug
          /\ "clockCh" \in Select(host)
          /\ host' = [host EXCEPT !.pc = "state", !.print = TRUE,
                                  !.pressed = FALSE, !.call = "Clock"]
          /\ e' = Clock(e)
          /\ UNCHANGED out
       \/ /\ host.pc = "clock" /\ ~(host.pressed /\ host.debug)
          /\ host' = [host EXCEPT !.pc = "state", !.pressed = FALSE,
                                  !.call = "none"]
          /\ UNCHANGED <<e, out>>
       \/ /\ host.pc = "state" /\ host.print /\ "stateCh" \in Select(host)
          /\ host' = [host EXCEPT
                        !.pc = "stateReply", !.gpc = "state",
                        !.s = [V |-> e.V, I |-> e.I, SP |-> e.SP,
                               DT |-> e.DT, ST |-> e.ST, PC |-> e.PC,
                               Memory |-> e.Memory],
                        !.call = "State"]
          /\ UNCHANGED <<e, out>>
       \/ /\ host.pc = "stateReply" /\ host.gpc = "state"
          /\ host' = [host EXCEPT !.pc = "idle", !.gpc = "select",
                                  !.s = << >>, !.call = "none"]
          /\ out' = [own |-> TRUE, value |-> host.s]
          /\ UNCHANGED e
       \/ /\ host.pc = "state" /\ ~host.print
          /\ host' = [host EXCEPT !.pc = "idle", !.call = "none"]
          /\ UNCHANGED <<e, out>>

\* The steps the goroutine takes without Update: it reads Game.debug to
\* choose its first stepCh and clockCh, and it receives from the tickers.
Goroutine ==
    /\ ~e.panic
    /\ UNCHANGED <<last, timer, out>>
    /\ \/ /\ host.gpc = "init"
          /\ host' = [host EXCEPT !.gpc = "select", !.manual = host.debug,
                                  !.call = "none"]
          /\ UNCHANGED e
       \/ /\ "tickerStepCh" \in Select(host)
          /\ host' = [host EXCEPT !.call = "Step"]
          /\ \E r \in RngValues : e' = Step(e, r).e
       \/ /\ "tickerClockCh" \in Select(host)
          /\ host' = [host EXCEPT !.call = "Clock"]
          /\ e' = Clock(e)

\* Go schedules every runnable goroutine, and a select among ready cases
\* picks each of them with equal probability: a step of Update that stays
\* possible is taken, and so is one of the goroutine.
SpecHost ==
    /\ Init
    /\ [][Main \/ Frame \/ Update \/ Goroutine]_vars
    /\ WF_vars(Update)
    /\ WF_vars(Goroutine)

\* Both timers are started with 2, then the program waits for a key and
\* halts: LD V0, 2; LD ST, V0; LD DT, V0; LD V1, K; HALT.  The host sets or
\* removes the sound callback and ticks the clock at any time.
SpecClock ==
    Init /\ [][ \/ DoLoad(<<\h60, \h02, \hf0, \h18, \hf0, \h15,
                              \hf1, \h0a, \h00, \h00>>)
                \/ \E callback \in BOOLEAN : DoSetSound(callback)
                \/ DoStep
                \/ DoClock
                \/ DoKeyDown(\h01)
                \/ DoKeyUp(\h01) ]_vars

SpecReload ==
    Init /\ [][ \/ \E program \in { ProgWaitKey, ProgInvalidALU } :
                      DoLoadAnyTime(program)
                \/ DoStep
                \/ DoClock
                \/ DoKeyDown(\h01)
                \/ DoKeyUp(\h01) ]_vars

SpecDelay ==
    Init /\ [][NextDelay]_vars /\ WF_vars(DoStep) /\ WF_vars(DoClock)

---------------------------------------------------------------------------
(* Vocabulary of the properties.  The opcode classes below are written     *)
(* from the instruction table, independently of Step's decoding.           *)

Nibble3(op) == op \div 4096

LowByte(op) == op % 256

LowNibble(op) == op % 16

SecondNibble(op) == (op \div 256) % 16

IsWaitKeyOp(op) == op >= 0 /\ Nibble3(op) = 15 /\ LowByte(op) = 10

\* Everything of the emulator except the keypad is the same in a and b.
SameExceptKeys(a, b) == [a EXCEPT !.Keys = b.Keys] = b

\* PC, V, I, SP, memory and display are the same in a and b.
SameProgramState(a, b) ==
    /\ a.PC = b.PC /\ a.V = b.V /\ a.I = b.I /\ a.SP = b.SP
    /\ a.Memory = b.Memory /\ a.Display = b.Display

ReturnedStopped == ~last.ok /\ last.err = "nil"

---------------------------------------------------------------------------
(* C1  Wait-for-key entry.  A Step that executes Fx0A records the pending  *)
(* wait with target register x, returns (true, nil) and leaves PC where it *)
(* is; a Step made while the wait is pending changes neither PC, V, I, SP, *)
(* memory nor display, and the wait stays pending.                         *)

C1_WaitKeyEntry ==
    [][ last'.op = "Step" =>
          /\ IsWaitKeyOp(Fetched(e)) =>
                /\ e'.waitKey
                /\ e'.waitKeyRegister = SecondNibble(Fetched(e))
                /\ last'.ok /\ last'.err = "nil"
                /\ e'.PC = e.PC
          /\ e.waitKey =>
                /\ SameProgramState(e, e')
                /\ e'.waitKey
                /\ e'.waitKeyRegister = e.waitKeyRegister
                /\ last'.ok /\ last'.err = "nil" ]_vars

\* A Step made during the second wait of ProgWaitKey, with a key held down.
C1_Witness ==
    /\ last.op = "Step" /\ last.pre.waitKey
    /\ e.waitKey /\ e.waitKeyRegister = 2
    /\ e.PC = ProgramStart + 2
    /\ e.Keys[15]

---------------------------------------------------------------------------
(* C2  Wait-for-key resolution.  KeyUp(k) made while a wait is pending on  *)
(* register x writes k to V[x] and to no other register, clears the        *)
(* pending wait and advances PC by exactly 2, from the Fx0A that started   *)
(* the wait to the instruction after it.                                   *)

C2_WaitKeyResolution ==
    [][ last'.op = "KeyUp" /\ e.waitKey =>
          /\ e'.V = [e.V EXCEPT ![e.waitKeyRegister] = last'.key]
          /\ ~e'.waitKey
          /\ e'.PC = e.PC + 2
          /\ IsWaitKeyOp(Fetched(e))
          /\ SecondNibble(Fetched(e)) = e.waitKeyRegister
          /\ e'.Memory = e.Memory ]_vars

\* KeyUp(0x0f) has resolved the second wait of ProgWaitKey.
C2_Witness ==
    /\ last.op = "KeyUp" /\ last.pre.waitKey /\ last.key = 15
    /\ ~e.waitKey
    /\ e.V[2] = 15
    /\ e.PC = ProgramStart + 4

---------------------------------------------------------------------------
(* C3  Only release events resolve the wait.  KeyDown(k) sets              *)
(* Keys[k & 0xF] and changes nothing else: PC, V and the pending wait are  *)
(* as before, whether or not a wait is pending.                            *)

C3_KeyDownFrame ==
    [][ last'.op = "KeyDown" =>
          /\ SameExceptKeys(e, e')
          /\ e'.Keys[last'.key % 16]
          /\ \A k \in 0..15 : k # last'.key % 16 => e'.Keys[k] = e.Keys[k] ]_vars

\* KeyDown during a pending wait, a second key being held already.
C3_Witness ==
    /\ last.op = "KeyDown" /\ last.pre.waitKey
    /\ e.waitKey
    /\ e.Keys[1] /\ e.Keys[15]
    /\ e.PC = ProgramStart

---------------------------------------------------------------------------
(* C4  First release wins.  A KeyUp always leaves no wait pending; a wait  *)
(* becomes pending only by a Step that executes Fx0A; a KeyUp made when no *)
(* wait is pending changes only Keys, and a KeyDown never changes V or PC: *)
(* so after KeyUp(k1) has resolved a wait, later key events leave          *)
(* V[target] = k1 and PC alone until Step executes another Fx0A.           *)

C4_FirstReleaseWins ==
    /\ [](last.op = "KeyUp" => ~e.waitKey)
    /\ [][ /\ last'.op = "KeyUp" /\ ~e.waitKey =>
                /\ SameExceptKeys(e, e')
                /\ \A k \in 0..15 : k # last'.key % 16 => e'.Keys[k] = e.Keys[k]
           /\ last'.op = "KeyDown" => e'.V = e.V /\ e'.PC = e.PC
           /\ ~e.waitKey /\ e'.waitKey =>
                last'.op = "Step" /\ IsWaitKeyOp(last'.opcode) ]_vars

\* The first wait was resolved by KeyUp(1); a later KeyUp(0x0f) found no wait
\* pending and left V0 = 1 and PC behind the first Fx0A.
C4_Witness ==
    /\ last.op = "KeyUp" /\ ~last.pre.waitKey /\ last.key = 15
    /\ last.pre.PC = ProgramStart + 2
    /\ e.PC = ProgramStart + 2
    /\ e.V[0] = 1

---------------------------------------------------------------------------
(* C5  Only the low four bits of a key argument are significant:           *)
(* KeyDown(k) and KeyUp(k) act on Keys[k & 0xF], and the value KeyUp(k)    *)
(* writes to V[target] when it resolves a wait is the keypad key k & 0xF,  *)
(* in 0..15.                                                               *)

---------------------------------------------------------------------------
(* C6  HALT is orderly and sticky.  Step on opcode 0000 returns            *)
(* (false, nil) and changes nothing; whenever a Step has returned          *)
(* (false, nil) the machine sits on a halting opcode with no wait pending; *)
(* from then on Clock, KeyDown, KeyUp and Step keep it there with PC       *)
(* unchanged, and every Step returns (false, nil) again.                   *)

IsHaltOp(op) == op >= 0 /\ Nibble3(op) = 0 /\ LowByte(op) = 0

HaltedConfig(s) == ~s.panic /\ IsHaltOp(Fetched(s)) /\ ~s.waitKey

C6_HaltSticky ==
    /\ [](last.op = "Step" /\ ReturnedStopped => HaltedConfig(e))
    /\ [][ /\ last'.op = "Step" /\ Fetched(e) = 0 =>
                ~last'.ok /\ last'.err = "nil" /\ e' = e
           /\ HaltedConfig(e) /\ last'.op # "Load" =>
                /\ HaltedConfig(e')
                /\ e'.PC = e.PC
                /\ last'.op = "Step" =>
                      ~last'.ok /\ last'.err = "nil" /\ e' = e ]_vars

\* ProgWaitKey has run to its HALT: both waits were resolved (the second by
\* KeyUp(1), so V2 = 1 + 1), a key is held, and the last Step stopped.
C6_Witness ==
    /\ last.op = "Step" /\ ReturnedStopped /\ last.opcode = 0
    /\ e.PC = ProgramStart + 6
    /\ e.V[2] = 2
    /\ e.Keys[15]

---------------------------------------------------------------------------
(* C7  Legacy 0NNN is HALT.  For every opcode 0NNN other than 00E0 and     *)
(* 00EE, Step returns (false, nil), as for 0000, and changes no state.     *)

C7_LegacySysIsHalt ==
    [][ /\ last'.op = "Step"
        /\ Fetched(e) >= 0 /\ Nibble3(Fetched(e)) = 0
        /\ Fetched(e) \notin {OpCLS, OpRET}
        => ~last'.ok /\ last'.err = "nil" /\ e' = e ]_vars

---------------------------------------------------------------------------
(* C8  Invalid opcode.  When the opcode at PC is 8xyN with N in            *)
(* {8,9,A,B,C,D,F}, Exkk with kk not in {9E,A1}, or Fxkk with kk not in    *)
(* {07,0A,15,18,1E,29,33,55,65}, Step returns (false, error) and leaves PC *)
(* and every other field as before, so Step repeated in the state it       *)
(* leaves returns the same error.                                          *)

IsInvalidOp(op) ==
    /\ op >= 0
    /\ \/ Nibble3(op) = 8 /\ LowNibble(op) \in {8, 9, 10, 11, 12, 13, 15}
       \/ Nibble3(op) = 14 /\ LowByte(op) \notin {\h9e, \ha1}
       \/ Nibble3(op) = 15 /\ LowByte(op) \notin
              {\h07, \h0a, \h15, \h18, \h1e, \h29, \h33, \h55, \h65}

C8_InvalidOpcode ==
    /\ [][ last'.op = "Step" /\ IsInvalidOp(Fetched(e)) =>
              /\ ~last'.ok /\ last'.err = "invalid opcode"
              /\ last'.opcode = Fetched(e)
              /\ e' = e ]_vars
    /\ [](last.op = "Step" /\ last.err = "invalid opcode" =>
              \A r \in RngValues :
                  /\ Step(e, r).err = "invalid opcode"
                  /\ ~Step(e, r).ok
                  /\ Step(e, r).e = e
                  /\ Fetched(e) = last.opcode)

\* Step has rejected 8009 after LD V0, 1 was executed.
C8_Witness ==
    /\ last.op = "Step" /\ last.err = "invalid opcode" /\ ~last.ok
    /\ last.opcode = \h8009
    /\ e.V[0] = 1
    /\ e.PC = ProgramStart + 2

---------------------------------------------------------------------------
(* C9  The sound callback fires exactly once per expiry.  Clock invokes    *)
(* the installed callback once when it takes ST from 1 to 0 and not        *)
(* otherwise; no other operation invokes it.  After LD ST, Vx has written  *)
(* n > 0 with a callback installed, the first n - 1 Clock calls produce no *)
(* callback and the n-th produces the only one, whatever is called after.  *)

C9_SoundOncePerExpiry ==
    /\ [][ /\ last'.sounds = IF last'.op = "Clock" /\ e.ST = 1 /\ e'.ST = 0 /\ e.sound
                             THEN 1 ELSE 0
           /\ last'.op = "Step" /\ IsLoadSoundTimer(Fetched(e)) /\ last'.ok =>
                 e'.ST = e.V[SecondNibble(Fetched(e))] ]_vars
    /\ [](timer.armed /\ timer.written > 0 =>
             IF timer.ticks < timer.written
             THEN timer.beeps = 0 /\ e.ST = timer.written - timer.ticks
             ELSE timer.beeps = 1 /\ e.ST = 0)

\* LD ST wrote 2 with a callback installed; the second Clock fired it.
C9_Witness ==
    /\ timer.armed /\ timer.written = 2 /\ timer.ticks = 2 /\ timer.beeps = 1
    /\ last.op = "Clock" /\ last.sounds = 1 /\ last.pre.ST = 1
    /\ e.ST = 0

---------------------------------------------------------------------------
(* C10  Timers saturate at zero.  Clock takes DT to DT - 1 if DT > 0 and   *)
(* leaves it 0 otherwise, and the same for ST; no operation takes a timer  *)
(* from 0 to 255 by wrapping.                                              *)

C10_TimersSaturate ==
    /\ [][ last'.op = "Clock" =>
              /\ e'.DT = IF e.DT > 0 THEN e.DT - 1 ELSE 0
              /\ e'.ST = IF e.ST > 0 THEN e.ST - 1 ELSE 0 ]_vars
    /\ [](e.DT \in 0..255 /\ e.ST \in 0..255)
    /\ [](last.op = "Clock" /\ last.pre.DT = 0 => e.DT = 0)
    /\ [](last.op = "Clock" /\ last.pre.ST = 0 => e.ST = 0)

\* Clock called with both timers already run down to 0 after LD ST / LD DT.
C10_Witness ==
    /\ last.op = "Clock" /\ last.pre.DT = 0 /\ last.pre.ST = 0
    /\ e.DT = 0 /\ e.ST = 0
    /\ timer.written = 2 /\ timer.ticks = 2

---------------------------------------------------------------------------
(* C11  Delay-loop termination.  With Step and Clock both called again and *)
(* again, a loaded program that writes n to DT with Fx15 and then loops on *)
(* LD V1, DT; SE V1, 0; JP back leaves the loop with V1 = 0 and DT = 0.    *)
(* DT is the value last written by Fx15 less the Clock calls made since,   *)
(* counted up to that value: it is 0 after exactly n calls, not before,    *)
(* and stays 0 until the next Fx15.                                        *)

DelayLoopExit == ProgramStart + 10

C11_DelayLoopTerminates ==
    /\ (timer.life = "loaded") ~>
           (e.PC = DelayLoopExit /\ e.V[1] = 0 /\ e.DT = 0)
    /\ [](e.DT = timer.dwritten - timer.dticks)
    /\ [][ last'.op = "Step" /\ IsLoadDelayTimer(Fetched(e)) =>
              e'.DT = e.V[SecondNibble(Fetched(e))] ]_vars

\* The loop was left after LD DT wrote 4 and Clock was called four times.
C11_Witness ==
    /\ e.PC = DelayLoopExit /\ e.V[1] = 0 /\ e.DT = 0 /\ e.V[0] = 4
    /\ timer.dwritten = 4 /\ timer.dticks = 4
    /\ last.op = "Step" /\ last.pre.PC = ProgramStart + 6

---------------------------------------------------------------------------
(* C12  Load rejects oversized programs.  Load called with more than       *)
(* 4096 - 0x200 = 3584 bytes reports an error and leaves memory and every  *)
(* other field of the machine as it was.                                   *)

C12_LoadRejectsOversized ==
    [][ last'.op = "Load" /\ Len(last'.program) > MemorySize - ProgramStart =>
            last'.err # "nil" /\ e' = e ]_vars

---------------------------------------------------------------------------
(* C13  Load copies the program to 0x200.  After Load of a program of      *)
(* length L <= 3584, Memory[0x200 + i] = program[i] for every i < L; the   *)
(* bytes below 0x200 and PC, V, I, SP, the stack, the timers, the display  *)
(* and the keys are as before; a program of exactly 3584 bytes fills the   *)
(* memory up to address 4095.                                              *)

C13_LoadCopies ==
    [][ last'.op = "Load" /\ Len(last'.program) <= MemorySize - ProgramStart =>
          LET program == last'.program
              L == Len(program)
          IN  /\ \A i \in 0..(L - 1) :
                    e'.Memory[ProgramStart + i] = program[i + 1]
              /\ \A a \in 0..(ProgramStart - 1) : e'.Memory[a] = e.Memory[a]
              /\ [e' EXCEPT !.Memory = e.Memory] = e
              /\ L = MemorySize - ProgramStart =>
                    e'.Memory[MemorySize - 1] = program[L] ]_vars

\* ProgFull loaded over ProgSetup after it ran to its HALT with key 1 down.
C13_Witness ==
    /\ last.op = "Load" /\ Len(last.program) = MemorySize - ProgramStart
    /\ e.Memory[ProgramStart] = \hff /\ e.Memory[MemorySize - 1] = \hff
    /\ e.Memory[0] = \hf0
    /\ e.PC = ProgramStart + 12 /\ e.SP = 1 /\ e.Stack[0] = ProgramStart + 10
    /\ e.V[0] = 2 /\ e.I = ProgramStart /\ e.DT = 2 /\ e.ST = 2
    /\ e.Display[2][3] = 1 /\ e.Keys[1]

---------------------------------------------------------------------------
(* C14  Initial state.  The emulator New returns has V, I, SP, the stack,  *)
(* DT, ST, the display and the keys all zero, no pending wait and          *)
(* PC = 0x200; the 80 bytes of the font table are at addresses [0, 80),    *)
(* the five rows of glyph d at 5*d .. 5*d + 4, and the memory from address *)
(* 80 upward is zero.                                                      *)

\* The rows of the glyphs 0, 1 and F, as the display shows them.
Glyph0 == << \hf0, \h90, \h90, \h90, \hf0 >>
Glyph1 == << \h20, \h60, \h20, \h20, \h70 >>
GlyphF == << \hf0, \h80, \hf0, \h80, \h80 >>

C14_InitialState ==
    last.op = "New" =>
        /\ \A r \in 0..15 : e.V[r] = 0 /\ ~e.Keys[r] /\ e.Stack[r] = 0
        /\ e.I = 0 /\ e.SP = 0 /\ e.DT = 0 /\ e.ST = 0
        /\ \A py \in 0..31 : \A px \in 0..63 : e.Display[py][px] = 0
        /\ ~e.waitKey
        /\ e.PC = 512
        /\ \A a \in 0..79 : e.Memory[a] = fonts[a + 1]
        /\ \A r \in 0..4 :
              /\ e.Memory[5 * 0 + r] = Glyph0[r + 1]
              /\ e.Memory[5 * 1 + r] = Glyph1[r + 1]
              /\ e.Memory[5 * 15 + r] = GlyphF[r + 1]
        /\ \A a \in 80..4095 : e.Memory[a] = 0
        /\ DOMAIN e.Memory = 0..4095

\* The state New has just returned.
C14_Witness ==
    /\ last.op = "New" /\ timer.life = "new"
    /\ e.PC = ProgramStart
    /\ e.Memory[0] = \hf0 /\ e.Memory[79] = \h80 /\ e.Memory[80] = 0

---------------------------------------------------------------------------
(* C15  ALU flag write ordering.  For 8xy4, 8xy5, 8xy7, 8xy6 and 8xyE and  *)
(* every x and y, x = F and y = F included, the flag (carry, no borrow,    *)
(* the bit shifted out) and the result are those of the register values    *)
(* before the instruction; afterwards VF is the flag and, when x is not F, *)
(* Vx is the result.                                                       *)

ThirdNibble(op) == (op \div 16) % 16

IsAluOp(op, ns) == op >= 0 /\ Nibble3(op) = 8 /\ LowNibble(op) \in ns

AluFlag(N, vx, vy) ==
    CASE N = 4 -> IF vx + vy > 255 THEN 1 ELSE 0
      [] N = 5 -> IF vx >= vy THEN 1 ELSE 0
      [] N = 7 -> IF vy >= vx THEN 1 ELSE 0
      [] N = 6 -> vy % 2
      [] N = 14 -> vy \div 128

AluResult(N, vx, vy) ==
    CASE N = 4 -> (vx + vy) % 256
      [] N = 5 -> (256 + vx - vy) % 256
      [] N = 7 -> (256 + vy - vx) % 256
      [] N = 6 -> vy \div 2
      [] N = 14 -> (2 * vy) % 256

C15_AluFlagOrdering ==
    [][ last'.op = "Step" /\ IsAluOp(Fetched(e), {4, 5, 6, 7, 14}) =>
          LET op == Fetched(e)
              x == SecondNibble(op)
              vx == e.V[x]
              vy == e.V[ThirdNibble(op)]
          IN  /\ e'.V[15] = AluFlag(LowNibble(op), vx, vy)
              /\ x # 15 => e'.V[x] = AluResult(LowNibble(op), vx, vy) ]_vars

\* SUB V0, VF was executed with V0 = 5 and VF = 2: V0 = 3 and VF = 1.
C15_Witness ==
    /\ last.op = "Step" /\ last.opcode = \h80f5
    /\ e.Memory[ProgramStart + 1] = 5 /\ e.Memory[ProgramStart + 5] = 2
    /\ e.V[0] = 3 /\ e.V[15] = 1

---------------------------------------------------------------------------
(* C16  Logical operations clear VF.  After 8xy1 (OR), 8xy2 (AND) and 8xy3 *)
(* (XOR), VF = 0 whatever it held before, for every x and y; when x is not *)
(* F, Vx is the bitwise OR, AND, XOR of the values Vx and Vy had before.   *)

\* The positions of the bits set in the byte v.
Bits(v) == { k \in 0..7 : (v \div Pow2(k)) % 2 = 1 }

C16_LogicalOpsClearFlag ==
    [][ last'.op = "Step" /\ IsAluOp(Fetched(e), {1, 2, 3}) =>
          LET op == Fetched(e)
              x == SecondNibble(op)
              bx == Bits(e.V[x])
              by == Bits(e.V[ThirdNibble(op)])
          IN  /\ e'.V[15] = 0
              /\ x # 15 =>
                    /\ e'.V[x] \in 0..255
                    /\ Bits(e'.V[x]) =
                          CASE LowNibble(op) = 1 -> bx \cup by
                            [] LowNibble(op) = 2 -> bx \cap by
                            [] LowNibble(op) = 3 -> (bx \ by) \cup (by \ bx) ]_vars

\* OR V1, V0 was executed with V0 = 5, V1 = 2 and VF = 0x81.
C16_Witness ==
    /\ last.op = "Step" /\ last.opcode = \h8101
    /\ e.Memory[ProgramStart + 1] = 5 /\ e.Memory[ProgramStart + 3] = 2
    /\ e.Memory[ProgramStart + 5] = \h81
    /\ e.V[1] = 7 /\ e.V[15] = 0

---------------------------------------------------------------------------
(* C17  Shift source quirk, as stated: SHR Vx, Vy sets Vx to the value Vy  *)
(* had, shifted right by one, and VF to its bit 0; SHL Vx, Vy sets Vx to   *)
(* that value shifted left by one, modulo 256, and VF to its bit 7, for    *)
(* every x; Vy is unchanged whenever y is neither x nor F.                 *)

ShiftSource(anyX) ==
    last'.op = "Step" /\ IsAluOp(Fetched(e), {6, 14}) =>
        LET op == Fetched(e)
            x == SecondNibble(op)
            y == ThirdNibble(op)
            vy == e.V[y]
        IN  /\ anyX \/ x # 15 =>
                  e'.V[x] = IF LowNibble(op) = 6 THEN vy \div 2
                                                ELSE (2 * vy) % 256
            /\ e'.V[15] = IF LowNibble(op) = 6 THEN vy % 2 ELSE vy \div 128
            /\ y # x /\ y # 15 => e'.V[y] = vy

C17_ShiftSourceEveryX == [][ShiftSource(TRUE)]_vars

(* C17, amended: the same, with Vx the shifted value only when x is not F  *)
(* (VF is the register of the flag, and the flag is written last).         *)

C17_ShiftSource == [][ShiftSource(FALSE)]_vars

\* SHR V1, V0 was executed with V0 = 0x81 and V1 = 2: V1 = 0x40, VF = 1.
C17_Witness ==
    /\ last.op = "Step" /\ last.opcode = \h8106
    /\ e.Memory[ProgramStart + 1] = \h81 /\ e.Memory[ProgramStart + 3] = 2
    /\ e.V[1] = \h40 /\ e.V[15] = 1 /\ e.V[0] = \h81

---------------------------------------------------------------------------
(* C18  DRW collision flag.  After DRW Vx, Vy, n, VF = 1 if and only if    *)
(* some pixel of the screen that was 1 before the instruction is 0 after   *)
(* it, and VF = 0 otherwise (n = 0 and sprites drawn on unset pixels       *)
(* included); the cell [by + dy][bx + dx] of every sprite bit that is 1    *)
(* and on the screen is toggled and every other cell is unchanged, where   *)
(* (bx, by) = (Vx mod 64, Vy mod 32).                                      *)

IsDrawOp(op) == op >= 0 /\ Nibble3(op) = 13

\* The origin of the sprite: the operands' values modulo the screen size.
OriginX(s, op) == s.V[SecondNibble(op)] % 64

OriginY(s, op) == s.V[ThirdNibble(op)] % 32

\* Cell (py, px) lies in the rectangle of n rows and 8 columns at the origin.
InSprite(s, op, py, px) ==
    /\ py - OriginY(s, op) \in 0..(LowNibble(op) - 1)
    /\ px - OriginX(s, op) \in 0..7

\* Cell (py, px) is under a sprite bit that is 1.
UnderSetBit(s, op, py, px) ==
    /\ InSprite(s, op, py, px)
    /\ (s.Memory[s.I + py - OriginY(s, op)]
            \div Pow2(7 - (px - OriginX(s, op)))) % 2 = 1

C18_DrawCollisionFlag ==
    [][ last'.op = "Step" /\ IsDrawOp(Fetched(e)) =>
          /\ e'.V[15] = IF \E py \in 0..31 : \E px \in 0..63 :
                               e.Display[py][px] = 1 /\ e'.Display[py][px] = 0
                         THEN 1 ELSE 0
          /\ \A py \in 0..31 : \A px \in 0..63 :
                e'.Display[py][px] =
                    IF UnderSetBit(e, Fetched(e), py, px)
                    THEN 1 - e.Display[py][px]
                    ELSE e.Display[py][px] ]_vars

---------------------------------------------------------------------------
(* C19  DRW clips and never wraps pixels.  With (bx, by) =                 *)
(* (Vx mod 64, Vy mod 32), DRW changes only cells [by + dy][bx + dx] with  *)
(* dy < n, dx < 8, by + dy < 32 and bx + dx < 64: rows and columns past    *)
(* the bottom and right edges are dropped, and every cell outside that     *)
(* rectangle is unchanged.                                                 *)

C19_DrawClips ==
    [][ last'.op = "Step" /\ IsDrawOp(Fetched(e)) =>
          \A py \in 0..31 : \A px \in 0..63 :
              ~InSprite(e, Fetched(e), py, px) =>
                  e'.Display[py][px] = e.Display[py][px] ]_vars

---------------------------------------------------------------------------
(* C20  CALL/RET pairing.  CALL nnn executed at address a with room in the *)
(* stack stores a in Stack[SP], increments SP and sets PC = nnn; a RET     *)
(* that has a CALL to match decrements SP and sets PC = a + 2 for the      *)
(* address a of the last CALL not returned from yet, so nested calls       *)
(* return last in, first out; SP is the number of CALLs not returned from, *)
(* so a balanced sequence of calls ends with the SP it started with, 0 at  *)
(* the top level.                                                          *)

C20_CallRetPairing ==
    /\ [][ last'.op = "Step" /\ Fetched(e) >= 0 /\ Nibble3(Fetched(e)) = 2
           /\ e.SP < 16 =>
              /\ e'.Stack[e.SP] = e.PC
              /\ e'.SP = e.SP + 1
              /\ e'.PC = Fetched(e) % 4096
              /\ timer'.calls = timer.calls \o << e.PC >> ]_vars
    /\ [][ last'.op = "Step" /\ Fetched(e) = \h00ee /\ timer.calls # << >> =>
              /\ e'.SP = e.SP - 1
              /\ e'.PC = timer.calls[Len(timer.calls)] + 2
              /\ timer.calls = timer'.calls \o << e'.PC - 2 >> ]_vars
    /\ [](~e.panic => e.SP = Len(timer.calls))
    /\ [](last.op = "Step" /\ ReturnedStopped /\ timer.calls = << >> => e.SP = 0)

\* ProgNest(3) is back at its HALT: three nested calls were made and
\* returned from in reverse order, and SP is 0 again.
C20_Witness ==
    /\ last.op = "Step" /\ ReturnedStopped /\ timer.calls = << >>
    /\ e.PC = ProgramStart + 2 /\ e.SP = 0 /\ e.V[0] = 3
    /\ e.Stack[0] = ProgramStart
    /\ e.Stack[1] = ProgramStart + 4
    /\ e.Stack[2] = ProgramStart + 8

---------------------------------------------------------------------------
(* C21  Stack pointer bound.  In every state 0 <= SP <= 16; a CALL         *)
(* executed with SP = 16 and a RET executed with SP = 0 complete without   *)
(* an access outside the 16 entries of the stack (which aborts the Go      *)
(* program with an index-out-of-range panic) and leave SP in 0..16.        *)

C21_StackPointerBound ==
    /\ [](e.SP \in 0..16)
    /\ [](last.op = "Step" /\ last.opcode >= 0
          /\ (Nibble3(last.opcode) = 2 \/ last.opcode = \h00ee)
          => ~e.panic)

---------------------------------------------------------------------------
(* C22  Memory addressing wraps modulo 4096.  When Fx55, Fx65 or Fx33 is   *)
(* executed with I such that an address I + k it accesses is 4096 or more, *)
(* the access goes to Mem[(I + k) mod 4096] and the instruction completes  *)
(* with PC advanced by 2: Fx55 leaves Mem[(I + k) mod 4096] = Vk, Fx65     *)
(* leaves Vk = Mem[(I + k) mod 4096], Fx33 leaves the three digits of Vx   *)
(* at (I + k) mod 4096.                                                    *)

IsMiscOp(op, kks) == op >= 0 /\ Nibble3(op) = 15 /\ LowByte(op) \in kks

\* The number of bytes the instruction accesses from I on.
Span(op) == IF LowByte(op) = \h33 THEN 3 ELSE SecondNibble(op) + 1

Digits(v) == << v \div 100, (v \div 10) % 10, v % 10 >>

C22_MemoryWraps ==
    [][ /\ last'.op = "Step"
        /\ IsMiscOp(Fetched(e), {\h33, \h55, \h65})
        /\ e.I + Span(Fetched(e)) - 1 >= 4096
        => LET op == Fetched(e)
               x == SecondNibble(op)
           IN  /\ last'.ok /\ last'.err = "nil" /\ ~e'.panic
               /\ e'.PC = e.PC + 2
               /\ \A k \in 0..(Span(op) - 1) :
                     CASE LowByte(op) = \h55 ->
                            e'.Memory[(e.I + k) % 4096] = e.V[k]
                       [] LowByte(op) = \h65 ->
                            e'.V[k] = e.Memory[(e.I + k) % 4096]
                       [] LowByte(op) = \h33 ->
                            e'.Memory[(e.I + k) % 4096] = Digits(e.V[x])[k + 1]
      ]_vars

---------------------------------------------------------------------------
(* C23  Index post-increment.  For every x and every I with I + x <= 4095, *)
(* after Fx55 and after Fx65 the index register is I + x + 1.  Fx55 writes *)
(* V0..Vx to Mem[I .. I + x] in order and changes no other byte of memory  *)
(* and no register; Fx65 loads V0..Vx from those addresses and changes no  *)
(* register above Vx and no memory.                                        *)

C23_IndexPostIncrement ==
    [][ /\ last'.op = "Step"
        /\ IsMiscOp(Fetched(e), {\h55, \h65})
        /\ e.I + SecondNibble(Fetched(e)) <= 4095
        => LET x == SecondNibble(Fetched(e))
           IN  /\ e'.I = e.I + x + 1
               /\ LowByte(Fetched(e)) = \h55 =>
                     /\ \A a \in 0..4095 :
                           e'.Memory[a] = IF a - e.I \in 0..x THEN e.V[a - e.I]
                                                              ELSE e.Memory[a]
                     /\ e'.V = e.V
               /\ LowByte(Fetched(e)) = \h65 =>
                     /\ \A r \in 0..15 :
                           e'.V[r] = IF r <= x THEN e.Memory[e.I + r] ELSE e.V[r]
                     /\ e'.Memory = e.Memory ]_vars

\* LD VF, [I] was executed with I = 0xff0: the sixteen registers were read
\* from the last sixteen bytes of the memory, where LD [I], VF had put them.
C23_Witness ==
    /\ last.op = "Step" /\ last.opcode = \hff65
    /\ e.I = 4096
    /\ e.V[0] = \h11 /\ e.V[1] = \h22 /\ e.V[15] = \h44
    /\ e.Memory[\hff0] = \h11 /\ e.Memory[4095] = \h44

---------------------------------------------------------------------------
(* C24  Store/load round trip.  After Fx55 at index a and any changes of   *)
(* the registers, Fx65 with the same x executed with I = a again leaves in *)
(* V0..Vx the values they had when Fx55 was executed, provided             *)
(* Mem[a .. a + x] still holds what Fx55 wrote.                            *)

C24_StoreLoadRoundTrip ==
    [][ /\ last'.op = "Step"
        /\ IsMiscOp(Fetched(e), {\h65})
        /\ timer.saved.x = SecondNibble(Fetched(e))
        /\ timer.saved.a = e.I
        /\ \A n \in 0..timer.saved.x :
              e.Memory[e.I + n] = timer.saved.bytes[n]
        => \A n \in 0..timer.saved.x : e'.V[n] = timer.saved.V[n] ]_vars

\* LD V2, [I] at 0x300 has brought back V0 and V1, changed since
\* LD [I], V2 stored them there.
C24_Witness ==
    /\ last.op = "Step" /\ last.opcode = \hf265
    /\ timer.saved.x = 2 /\ timer.saved.a = \h300
    /\ e.Memory[ProgramStart + 13] = \h03 /\ e.Memory[ProgramStart + 15] = \h99
    /\ e.V[0] = \h11 /\ e.V[1] = \h22 /\ e.V[2] = \h33

---------------------------------------------------------------------------
(* C25  BCD store.  For every value of Vx, Fx33 writes Mem[I] = Vx / 100,  *)
(* Mem[I + 1] = (Vx / 10) mod 10 and Mem[I + 2] = Vx mod 10: each byte is  *)
(* a decimal digit and 100 * Mem[I] + 10 * Mem[I + 1] + Mem[I + 2] = Vx;   *)
(* I, V and all other memory are unchanged.                                *)

C25_BcdStore ==
    [][ /\ last'.op = "Step"
        /\ IsMiscOp(Fetched(e), {\h33})
        /\ e.I + 2 <= 4095
        => LET vx == e.V[SecondNibble(Fetched(e))]
               m == e'.Memory
           IN  /\ m[e.I] = vx \div 100
               /\ m[e.I + 1] = (vx \div 10) % 10
               /\ m[e.I + 2] = vx % 10
               /\ \A k \in 0..2 : m[e.I + k] \in 0..9
               /\ 100 * m[e.I] + 10 * m[e.I + 1] + m[e.I + 2] = vx
               /\ e'.I = e.I /\ e'.V = e.V
               /\ \A a \in 0..4095 :
                     a - e.I \notin 0..2 => m[a] = e.Memory[a] ]_vars

\* LD B, V0 was executed with V0 = 254 and I = 0x300.
C25_Witness ==
    /\ last.op = "Step" /\ last.opcode = \hf033
    /\ e.V[0] = 254 /\ e.I = \h300
    /\ e.Memory[\h300] = 2 /\ e.Memory[\h301] = 5 /\ e.Memory[\h302] = 4

---------------------------------------------------------------------------
(* C26  Font address.  For every value of Vx, Fx29 sets I = 5 * (Vx & 0xF) *)
(* so I is the start of one of the 16 glyphs of the font table [0, 80).    *)

C26_FontAddress ==
    [][ last'.op = "Step" /\ IsMiscOp(Fetched(e), {\h29}) =>
          /\ e'.I = 5 * (e.V[SecondNibble(Fetched(e))] % 16)
          /\ e'.I \in { 5 * d : d \in 0..15 } ]_vars

---------------------------------------------------------------------------
(* C27  Skip semantics.  Each skip instruction advances PC by 4 when its   *)
(* predicate holds and by 2 otherwise and changes nothing else.  The       *)
(* predicates are Vx = kk (3xkk), Vx # kk (4xkk), Vx = Vy (5xy0),          *)
(* Vx # Vy (9xy0), key Vx & 0xF down (Ex9E) and key Vx & 0xF not down      *)
(* (ExA1), where a key is down when its latest event is a KeyDown.  In any *)
(* state exactly one of SKP Vx and SKNP Vx skips.                          *)

IsSkipOp(op) ==
    /\ op >= 0
    /\ \/ Nibble3(op) \in {3, 4}
       \/ Nibble3(op) \in {5, 9} /\ LowNibble(op) = 0
       \/ Nibble3(op) = 14 /\ LowByte(op) \in {\h9e, \ha1}

SkipPredicate(s, held, op) ==
    LET vx == s.V[SecondNibble(op)]
        vy == s.V[ThirdNibble(op)]
        down == (vx % 16) \in held
    IN  CASE Nibble3(op) = 3 -> vx = LowByte(op)
          [] Nibble3(op) = 4 -> vx # LowByte(op)
          [] Nibble3(op) = 5 -> vx = vy
          [] Nibble3(op) = 9 -> vx # vy
          [] Nibble3(op) = 14 /\ LowByte(op) = \h9e -> down
          [] Nibble3(op) = 14 /\ LowByte(op) = \ha1 -> ~down

\* The state in which the other of SKP Vx and SKNP Vx is at PC.
OtherKeySkip(s) ==
    [s EXCEPT !.Memory[s.PC + 1] = IF @ = \h9e THEN \ha1 ELSE \h9e]

C27_SkipSemantics ==
    [][ last'.op = "Step" /\ IsSkipOp(Fetched(e)) =>
          LET op == Fetched(e)
              by == IF SkipPredicate(e, timer.held, op) THEN 4 ELSE 2
          IN  /\ last'.ok /\ last'.err = "nil"
              /\ e' = [e EXCEPT !.PC = e.PC + by]
              /\ Nibble3(op) = 14 =>
                    \A r \in RngValues :
                       LET other == Step(OtherKeySkip(e), r)
                       IN  /\ other.ok
                           /\ other.e = [OtherKeySkip(e) EXCEPT
                                            !.PC = e.PC + (6 - by)] ]_vars

\* SKP V0 was executed with V0 = 0x1f while the latest events of keys 1 and
\* F were KeyDown: it skipped LD V2, 1.
C27_Witness ==
    /\ last.op = "Step" /\ last.opcode = \he09e
    /\ e.V[0] = \h1f
    /\ timer.held = { 1, 15 }
    /\ e.PC = last.pre.PC + 4
    /\ e.Keys[15] /\ e.Keys[1]

---------------------------------------------------------------------------
(* C28  Snapshot is by value.  State copies the machine state: Step,       *)
(* Clock, KeyDown, KeyUp and Load applied to the emulator after the call   *)
(* never change what the caller reads from a snapshot already taken, and   *)
(* writes to the snapshot never change the emulator.                       *)

C28_SnapshotByValue ==
    [][ /\ last'.op \in {"Step", "Clock", "KeyDown", "KeyUp", "Load"}
           => Snapshot(out', e') = Snapshot(out, e)
        /\ last'.op = "WriteState" => e' = e ]_vars

\* A snapshot was taken of the new emulator and the caller wrote to it;
\* then the program was loaded, key 1 was pressed and released for
\* LD V0, K, LD DT, V0 was executed and Clock was called.
C28_Witness ==
    /\ last.op = "Clock"
    /\ out.value.PC = ProgramStart /\ out.value.DT = 0
    /\ out.value.V[0] = \h12 /\ out.value.V[15] = \hff
    /\ out.value.Memory[ProgramStart] = 0 /\ ~out.value.Keys[1]
    /\ e.PC = ProgramStart + 4 /\ e.DT = 0 /\ e.V[0] = 1 /\ e.V[15] = 0
    /\ e.Memory[ProgramStart] = \hf0 /\ e.Keys[1]

---------------------------------------------------------------------------
(* C29  Snapshot is the full machine state.  If two emulator instances     *)
(* produce equal State snapshots, the same operation applied to both (Step *)
(* with the same RNG value, Clock, KeyDown(k), KeyUp(k)) yields the same   *)
(* result and equal snapshots again.  The two instances compared are the   *)
(* emulator before and after a call that left the snapshot as it was.      *)

SameSnapshot(a, b) == StateFields(a) = StateFields(b)

C29_SnapshotDetermines ==
    [][ ~e.panic /\ ~e'.panic /\ SameSnapshot(e, e') =>
          /\ \A r \in RngValues :
                /\ Step(e, r).ok = Step(e', r).ok
                /\ Step(e, r).err = Step(e', r).err
                /\ Step(e, r).e.panic = Step(e', r).e.panic
                /\ SameSnapshot(Step(e, r).e, Step(e', r).e)
          /\ SameSnapshot(Clock(e), Clock(e'))
          /\ \A k \in KeyArgs :
                /\ SameSnapshot(KeyDown(e, k), KeyDown(e', k))
                /\ SameSnapshot(KeyUp(e, k), KeyUp(e', k)) ]_vars

---------------------------------------------------------------------------
(* C30  Disassembly is total with a uniform fallback.  For every opcode    *)
(* the disassembler returns a string, and every opcode that matches no row *)
(* of the instruction table (8xyN with undefined N, Exkk and Fxkk with     *)
(* undefined kk, 0nnn other than 00E0 and 00EE, 5xyN and 9xyN with N # 0)  *)
(* is rendered as "unknown (XXXX)", XXXX being the opcode in four          *)
(* lowercase hexadecimal digits.                                           *)

OutsideTable(op) ==
    \/ Nibble3(op) = 8 /\ LowNibble(op) \notin (0..7) \cup {14}
    \/ Nibble3(op) = 14 /\ LowByte(op) \notin {\h9e, \ha1}
    \/ Nibble3(op) = 15 /\
          LowByte(op) \notin {\h07, \h0a, \h15, \h18, \h1e, \h29, \h33, \h55, \h65}
    \/ Nibble3(op) = 0 /\ op \notin {\h00e0, \h00ee}
    \/ Nibble3(op) \in {5, 9} /\ LowNibble(op) # 0

LowerHex4(op) ==
    LET d == << "0", "1", "2", "3", "4", "5", "6", "7",
                "8", "9", "a", "b", "c", "d", "e", "f" >>
    IN  d[Nibble3(op) + 1] \o d[SecondNibble(op) + 1]
          \o d[ThirdNibble(op) + 1] \o d[LowNibble(op) + 1]

C30_DisassemblyFallback ==
    [](last.op = "PrintInstruction" =>
          /\ last.text # ""
          /\ OutsideTable(last.opcode) =>
                last.text = "unknown (" \o LowerHex4(last.opcode) \o ")")

---------------------------------------------------------------------------
(* C31  Canonical mnemonics.  For every defined opcode the disassembly is  *)
(* the lowercase mnemonic of its row in the instruction table followed by  *)
(* its operands: registers as vX, 8-bit constants as two hexadecimal       *)
(* digits, addresses as three and the sprite height as one; so CLS is      *)
(* "cls", SHR is "shr vX, vY" and Dxyn is "drw vX, vY, n".                 *)

LowerHex(d) ==
    << "0", "1", "2", "3", "4", "5", "6", "7",
       "8", "9", "a", "b", "c", "d", "e", "f" >>[d + 1]

\* The row of the instruction table for a defined opcode, in lower case.
Canonical(op) ==
    LET vx == "v" \o LowerHex(SecondNibble(op))
        vy == "v" \o LowerHex(ThirdNibble(op))
        kk == LowerHex(ThirdNibble(op)) \o LowerHex(LowNibble(op))
        nnn == LowerHex(SecondNibble(op)) \o kk
        f == Nibble3(op)
        alu == [i \in 0..14 |->
                  CASE i = 0 -> "ld" [] i = 1 -> "or" [] i = 2 -> "and"
                    [] i = 3 -> "xor" [] i = 4 -> "add" [] i = 5 -> "sub"
                    [] i = 6 -> "shr" [] i = 7 -> "subn" [] i = 14 -> "shl"
                    [] OTHER -> "?"]
    IN  CASE op = \h00e0 -> "cls"
          [] op = \h00ee -> "ret"
          [] f = 1 -> "jp " \o nnn
          [] f = 2 -> "call " \o nnn
          [] f = 3 -> "se " \o vx \o ", " \o kk
          [] f = 4 -> "sne " \o vx \o ", " \o kk
          [] f = 5 -> "se " \o vx \o ", " \o vy
          [] f = 6 -> "ld " \o vx \o ", " \o kk
          [] f = 7 -> "add " \o vx \o ", " \o kk
          [] f = 8 -> alu[LowNibble(op)] \o " " \o vx \o ", " \o vy
          [] f = 9 -> "sne " \o vx \o ", " \o vy
          [] f = 10 -> "ld i, " \o nnn
          [] f = 11 -> "jp v0, " \o nnn
          [] f = 12 -> "rnd " \o vx \o ", " \o kk
          [] f = 13 -> "drw " \o vx \o ", " \o vy \o ", "
                          \o LowerHex(LowNibble(op))
          [] f = 14 /\ LowByte(op) = \h9e -> "skp " \o vx
          [] f = 14 /\ LowByte(op) = \ha1 -> "sknp " \o vx
          [] f = 15 /\ LowByte(op) = \h07 -> "ld " \o vx \o ", dt"
          [] f = 15 /\ LowByte(op) = \h0a -> "ld " \o vx \o ", k"
          [] f = 15 /\ LowByte(op) = \h15 -> "ld dt, " \o vx
          [] f = 15 /\ LowByte(op) = \h18 -> "ld st, " \o vx
          [] f = 15 /\ LowByte(op) = \h1e -> "add i, " \o vx
          [] f = 15 /\ LowByte(op) = \h29 -> "ld f, " \o vx
          [] f = 15 /\ LowByte(op) = \h33 -> "ld b, " \o vx
          [] f = 15 /\ LowByte(op) = \h55 -> "ld [i], " \o vx
          [] f = 15 /\ LowByte(op) = \h65 -> "ld " \o vx \o ", [i]"

C31_CanonicalMnemonics ==
    [](last.op = "PrintInstruction" /\ ~OutsideTable(last.opcode) =>
          last.text = Canonical(last.opcode))

---------------------------------------------------------------------------
(* C32  PC alignment.  Starting from an even PC, after Step has executed   *)
(* any instruction other than JP, CALL, RET and JP V0 (the skips, Fx0A,    *)
(* HALT and invalid opcodes included), and after a KeyUp that resolves a   *)
(* wait, PC is still even.                                                 *)

IsJumpOp(op) == Nibble3(op) \in {1, 2, 11} \/ op = \h00ee

C32_PcAlignment ==
    [][ /\ e.PC % 2 = 0
        /\ \/ last'.op = "Step" /\ ~IsJumpOp(Fetched(e))
           \/ last'.op = "KeyUp" /\ e.waitKey
        => e'.PC % 2 = 0 ]_vars

\* SE V1, 0 at 0x208 found V1 = 0 and skipped the JP behind it.
C32_Witness ==
    /\ last.op = "Step" /\ last.opcode = \h3100
    /\ last.pre.PC = ProgramStart + 8
    /\ e.PC = ProgramStart + 12

---------------------------------------------------------------------------
(* C33  VF write set.  As stated: VF changes only as the result of an ALU  *)
(* instruction with carry or borrow semantics (8xy4, 8xy5, 8xy7), a shift  *)
(* (8xy6, 8xyE) or DRW; every other instruction and every Clock, KeyDown   *)
(* and KeyUp call leaves VF unchanged.                                     *)

FlagChanged == e'.V[15] # e.V[15]

C33_FlagWriteSet ==
    [][ FlagChanged =>
          /\ last'.op = "Step"
          /\ \/ Nibble3(Fetched(e)) = 8 /\ LowNibble(Fetched(e)) \in {4, 5, 6, 7, 14}
             \/ Nibble3(Fetched(e)) = 13 ]_vars

(* C33 amended.  VF is also register F.  It changes only as the result of  *)
(* an ALU instruction 8xy1 to 8xyE (OR, AND and XOR clear it), of DRW, of  *)
(* an instruction whose destination register is F (6Fkk, 7Fkk, 8Fy0, CFkk, *)
(* FF07, FF65) or of a KeyUp that resolves the wait of FF0A; every other   *)
(* instruction and every Clock, KeyDown and other KeyUp leaves it          *)
(* unchanged.                                                              *)
C33_FlagWriteSetAmended ==
    [][ FlagChanged =>
          \/ /\ last'.op = "Step"
             /\ LET op == Fetched(e)
                IN  \/ Nibble3(op) = 8 /\ LowNibble(op) \in (1..7) \cup {14}
                    \/ Nibble3(op) = 13
                    \/ Nibble3(op) \in {6, 7, 12} /\ SecondNibble(op) = 15
                    \/ Nibble3(op) = 8 /\ LowNibble(op) = 0 /\ SecondNibble(op) = 15
                    \/ IsMiscOp(op, {\h07, \h65}) /\ SecondNibble(op) = 15
          \/ /\ last'.op = "KeyUp"
             /\ e.waitKey /\ e.waitKeyRegister = 15 ]_vars

\* ADD V0, V0 with V0 = 0xff has set VF, which was 3, to the carry, and
\* Clock was called after it.
C33_Witness ==
    /\ last.op = "Clock" /\ last.pre.PC = ProgramStart + 14
    /\ e.V[0] = \hfe /\ e.V[15] = 1 /\ e.DT = 0

---------------------------------------------------------------------------
(* C34  DRW origin uses the operands' pre-instruction values.  For every x *)
(* and y, F included, the top-left corner of the sprite is                 *)
(* (Vx mod 64, Vy mod 32) on the values the registers hold before DRW      *)
(* executes, that is, before VF is cleared: the cells DRW flips are those  *)
(* under the set bits of the sprite placed at that corner.                 *)

C34_DrawOriginPreValues ==
    [][ last'.op = "Step" /\ IsDrawOp(Fetched(e)) /\ ~e'.panic =>
          \A py \in 0..31 : \A px \in 0..63 :
              (e'.Display[py][px] # e.Display[py][px])
                 <=> UnderSetBit(e, Fetched(e), py, px) ]_vars

---------------------------------------------------------------------------
(* C35  Pending wait always sits on its Fx0A.  After any sequence of Load, *)
(* Step, Clock, KeyDown and KeyUp, whenever a wait is pending the opcode   *)
(* at PC is Fx0A with x the recorded target register; so a KeyUp that      *)
(* resolves a wait never writes a register of, or skips, another           *)
(* instruction.                                                            *)

C35_WaitSitsOnItsOpcode ==
    [](e.waitKey /\ ~e.panic =>
          /\ ~InstructionPanics(e)
          /\ Instruction(e) = \hf00a + 256 * e.waitKeyRegister)

---------------------------------------------------------------------------
(* C36  Step is total on reachable states.  In every state reachable from  *)
(* New and Load by the public operations, whatever PC the jumps (JP,       *)
(* JP V0 with V0 + nnn > 4095) and straight-line execution up to the end   *)
(* of the memory have produced, Step's fetch of Mem[PC] and Mem[PC + 1]    *)
(* completes and Step returns continue, stopped or an invalid-opcode       *)
(* error; it never aborts on a PC out of range.                            *)

C36_StepTotal ==
    /\ [](~e.panic => ~InstructionPanics(e))
    /\ [](last.op = "Step" => last.opcode >= 0)

---------------------------------------------------------------------------
(* C37  DRW is an involution on the display.  Executing the same           *)
(* DRW Vx, Vy, n twice in a row, with x # F, y # F and the same I and      *)
(* sprite bytes, restores the display to what it was before the first      *)
(* draw, and the second draw reports VF = 1 if and only if the sprite has  *)
(* a set bit that lands on the screen; every display cell is always 0 or   *)
(* 1.                                                                      *)

C37_DrawInvolution ==
    /\ [][ /\ last'.op = "Step" /\ IsDrawOp(Fetched(e))
           /\ last.op = "Step" /\ last.opcode = Fetched(e)
           /\ SecondNibble(Fetched(e)) # 15 /\ ThirdNibble(Fetched(e)) # 15
           => /\ e'.Display = timer.shown
              /\ e'.V[15] = IF \E py \in 0..31 : \E px \in 0..63 :
                                   UnderSetBit(e, Fetched(e), py, px)
                            THEN 1 ELSE 0 ]_vars
    /\ [](\A py \in 0..31 : \A px \in 0..63 : e.Display[py][px] \in {0, 1})

\* The second DRW V0, V1, 3 at (61, 30) has put back what the DRW at
\* (60, 30) had drawn, with its rows cut at the right and bottom edges.
C37_Witness ==
    /\ last.op = "Step" /\ last.opcode = \hd013
    /\ last.pre.PC = ProgramStart + 12
    /\ e.V[0] = 61 /\ e.V[1] = 30 /\ e.V[15] = 1
    /\ e.Display[30][60] = 1 /\ e.Display[30][63] = 1
    /\ e.Display[31][60] = 1 /\ e.Display[31][61] = 0
    /\ timer.shown[30][63] = 0 /\ timer.shown[31][61] = 1

---------------------------------------------------------------------------
(* C38  Decoder and disassembler agree.  For every opcode, Step returns an *)
(* invalid-opcode error exactly when the disassembler renders it as        *)
(* unknown (XXXX), except the opcodes of family 0 with low byte 00 (HALT), *)
(* which are rendered as unknown while Step stops without error; every     *)
(* opcode the disassembler names is executed by Step as the instruction of *)
(* that name.                                                              *)

\* The emulator t is what the instruction named by text makes of s.
ExecutedAsNamed(s, op, text, r, t) ==
    LET vx == "v" \o LowerHex(SecondNibble(op))
        vy == "v" \o LowerHex(ThirdNibble(op))
        kk == LowerHex(ThirdNibble(op)) \o LowerHex(LowNibble(op))
        nnn == LowerHex(SecondNibble(op)) \o kk
        n == LowerHex(LowNibble(op))
    IN  CASE text = "cls" -> t = clearDisplay(s)
          [] text = "ret" -> t = functionReturn(s)
          [] text = "jp " \o nnn -> t = jump(s, op)
          [] text = "call " \o nnn -> t = functionCall(s, op)
          [] text = "se " \o vx \o ", " \o kk -> t = skipIfConstantEqual(s, op)
          [] text = "sne " \o vx \o ", " \o kk -> t = skipIfConstantNotEqual(s, op)
          [] text = "se " \o vx \o ", " \o vy -> t = skipIfRegisterEqual(s, op)
          [] text = "ld " \o vx \o ", " \o kk -> t = loadRegisterFromConstant(s, op)
          [] text = "add " \o vx \o ", " \o kk -> t = incrementRegister(s, op)
          [] text = "ld " \o vx \o ", " \o vy -> t = loadRegisterFromRegister(s, op)
          [] text = "or " \o vx \o ", " \o vy -> t = bitwiseOr(s, op)
          [] text = "and " \o vx \o ", " \o vy -> t = bitwiseAnd(s, op)
          [] text = "xor " \o vx \o ", " \o vy -> t = bitwiseXor(s, op)
          [] text = "add " \o vx \o ", " \o vy -> t = addWithCarry(s, op)
          [] text = "sub " \o vx \o ", " \o vy -> t = subtractRightWithBorrow(s, op)
          [] text = "shr " \o vx \o ", " \o vy -> t = shiftRight(s, op)
          [] text = "subn " \o vx \o ", " \o vy -> t = subtractLeftWithBorrow(s, op)
          [] text = "shl " \o vx \o ", " \o vy -> t = shiftLeft(s, op)
          [] text = "sne " \o vx \o ", " \o vy -> t = skipIfRegisterNotEqual(s, op)
          [] text = "ld i, " \o nnn -> t = loadIndex(s, op)
          [] text = "jp v0, " \o nnn -> t = jumpRelative(s, op)
          [] text = "rnd " \o vx \o ", " \o kk -> t = generateRandomNumber(s, op, r)
          [] text = "draw " \o vx \o ", " \o vy \o ", " \o n -> t = draw(s, op)
          [] text = "skp " \o vx -> t = skipIfKeyPressed(s, op)
          [] text = "sknp " \o vx -> t = skipIfKeyNotPressed(s, op)
          [] text = "ld " \o vx \o ", dt" -> t = loadRegisterFromDelayTimer(s, op)
          [] text = "ld " \o vx \o ", k" -> t = waitForKeyPress(s, op)
          [] text = "ld dt, " \o vx -> t = loadDelayTimer(s, op)
          [] text = "ld st, " \o vx -> t = loadSoundTimer(s, op)
          [] text = "add i, " \o vx -> t = incrementIndex(s, op)
          [] text = "ld f, " \o vx -> t = loadIndexFromSprite(s, op)
          [] text = "ld b, " \o vx -> t = loadMemoryFromBCD(s, op)
          [] text = "ld [i], " \o vx -> t = loadMemoryFromRegisters(s, op)
          [] text = "ld " \o vx \o ", [i]" -> t = loadRegistersFromMemory(s, op)
          [] OTHER -> FALSE

C39_ClockTouchesOnlyTimers ==
    [][ last'.op = "Clock" =>
          /\ [e' EXCEPT !.DT = 0, !.ST = 0] = [e EXCEPT !.DT = 0, !.ST = 0]
          /\ e'.DT = (IF e.DT = 0 THEN 0 ELSE e.DT - 1)
          /\ e'.ST = (IF e.ST = 0 THEN 0 ELSE e.ST - 1)
          /\ last'.sounds = (IF e.ST = 1 /\ e.sound THEN 1 ELSE 0)
          /\ e'.waitKey = e.waitKey /\ e'.PC = e.PC ]_vars

\* The machine waits for a key at 0x206 while the last tick took both
\* timers from 1 to 0 and the sound callback was called.
C39_Witness ==
    /\ last.op = "Clock" /\ last.pre.waitKey /\ e.waitKey
    /\ last.pre.ST = 1 /\ last.pre.DT = 1
    /\ e.ST = 0 /\ e.DT = 0 /\ last.sounds = 1
    /\ e.PC = ProgramStart + 6

\* C40: in the windowed host every emulator entry point is called by the
\* emulator goroutine from its select loop, one call per step of the loop,
\* and the emulator changes in no other step; the goroutine has chosen its
\* first channels before Update can write Game.debug; while debug mode is
\* on, a Step or a Clock is called exactly when Update's send after F10 or
\* F11 is received, once per send; and every Update that ebiten starts
\* returns, whatever keys the frame brings.
C40_HostSerialization ==
    /\ [][ /\ host'.call # "none" => host.gpc = "select"
           /\ host.pc # "main" /\ e' # e =>
                 host'.call \in { "Step", "Clock", "KeyDown", "KeyUp" }
           /\ host.debug /\ host'.call = "Step" =>
                 host.pc = "step" /\ host.pressed /\ host'.pc = "clock"
           /\ host.debug /\ host'.call = "Clock" =>
                 host.pc = "clock" /\ host.pressed /\ host'.pc = "state"
           /\ host.debug /\ host.pressed /\ host.pc = "step"
                 /\ host'.pc = "clock" => host'.call = "Step"
           /\ host.debug /\ host.pressed /\ host.pc = "clock"
                 /\ host'.pc = "state" => host'.call = "Clock" ]_vars
    /\ [](host.gpc = "init" => host.pc \in { "keyDown", "keyUp", "display" })
    /\ [](host.gpc \in { "select", "display", "state" } =>
              host.manual = host.debug)
    /\ (host.pc \notin { "main", "idle" }) ~> (host.pc = "idle")

\* In debug mode, after the key events of earlier frames resolved the first
\* wait, the manual step of this frame executed LD V2, K at 0x202, and
\* Update goes on to F11.
C40_Witness ==
    /\ host.debug /\ host.manual /\ host.pc = "clock" /\ host.print
    /\ host.call = "Step" /\ host.gpc = "select"
    /\ e.PC = ProgramStart + 2 /\ e.waitKey /\ e.waitKeyRegister = 2
    /\ e.V[0] = \h01

====
